---- MODULE Spec2Model ----
(***************************************************************************)
(* Verification model of the Atmosphere reconciliation and enforcement     *)
(* engine (service/tasks/monitoring.py) and of the instance status history *)
(* ledger (core/models/instance_history.py).                               *)
(*                                                                         *)
(* Four specifications share the module, one per part of the program:      *)
(*   SpecHist    InstanceStatusHistory.transaction on the ledger           *)
(*   SpecActive  InstanceStatusHistory.get_active_time (a pure function)   *)
(*   SpecAlloc   monitor_allocation_sources                                *)
(*   SpecPrune   prune_machines_for and the steps it runs                  *)
(* Each specification leaves the variables of the other parts untouched.   *)
(***************************************************************************)
EXTENDS Integers, Sequences, FiniteSets, TLC

VARIABLES
    \* --- status history ledger
    rows,        \* the instance_status_history table: row id = index
    instEnd,     \* Instance.end_date per instance
    txnCount,    \* number of transaction() calls made so far
    lastCall,    \* the last transaction() call: arguments, outcome, table before
    \* --- get_active_time
    atCall,      \* the last get_active_time() call: row, window, clock, result
    \* --- allocation enforcement
    ENFORCING,   \* settings.ENFORCING
    allocPc,     \* position of monitor_allocation_sources
    allocQueue,  \* (allocation_source, user) pairs still to visit, in loop order
    usernamesArg,\* the usernames argument of the running call
    visitLog,    \* what each loop iteration saw and decided
    dispatched,  \* apply_async calls made, in order
    \* --- machine pruning
    topo,        \* the (fixed) foreign keys: machine -> version -> application
    db,          \* end dates and membership tables
    clock,       \* timezone.now()
    pc,          \* position of prune_machines_for
    args,        \* arguments and locals of the running prune_machines_for
    pre,         \* db when the running pass started
    run,         \* how many passes have been started
    \* --- other tasks and calls
    mm,          \* monitor_machines_for: position, locals, the cloud's image members
    enf,         \* allocation_source_overage_enforcement_for_user: position and locals
    nav,         \* a previous() or next() call on a history row and its outcome
    vol,         \* monitor_volumes_for: the provider's volumes, the snapshot, position
    sz,          \* monitor_sizes_for: the provider's sizes, the cloud's answers, position
    top,         \* a top-level job: the providers, the per-provider jobs enqueued
    share,       \* _share_image: the cloud's image members and the call's outcome
    \* --- calls and concurrent passes
    uim,         \* an update_image_membership call: image, machine, tables before
    auth,        \* a validate_user call: the remote answer, local rows, the outcome
    par,         \* two concurrent callers: the position and locals of each
    mon          \* monitor_instances_for: tenants to visit, instances, position

histVars == <<rows, instEnd, txnCount, lastCall>>
activeVars == <<atCall>>
allocVars == <<ENFORCING, allocPc, allocQueue, usernamesArg, visitLog, dispatched>>
pruneVars == <<topo, db, clock, pc, args, pre, run>>
extVars == <<mm, enf, nav>>
jobVars == <<vol, sz, top, share>>
callVars == <<uim, auth, par, mon>>
vars == <<histVars, activeVars, allocVars, pruneVars, extVars, jobVars, callVars>>

\* Python None / SQL NULL in a date or id column (dates and ids are >= 0).
NULL == 0 - 1

\* ---------------------------------------------------------------- bounds
MaxTxn == 2        \* transaction() calls per behaviour
MaxTime == 3       \* timestamps range over 0..MaxTime

Times == 0..MaxTime
TimesOrNull == Times \cup {NULL}

(***************************************************************************)
(* Status history ledger                                                   *)
(***************************************************************************)
Instances == {"i1", "i2"}

\* status/activity/size/extra arguments a caller passes, differing in every field
Payloads ==
    { [status |-> "active", activity |-> "none", size |-> "small", extra |-> "none"],
      [status |-> "suspended", activity |-> "suspending", size |-> "large", extra |-> "fault"] }

Row(inst, p, start, end) ==
    [instance |-> inst, status |-> p.status, activity |-> p.activity,
     size |-> p.size, extra |-> p.extra, start_date |-> start, end_date |-> end]

RowIds(rs) == 1..Len(rs)
RowsOf(rs, inst) == {i \in RowIds(rs) : rs[i].instance = inst}

\* Instance.get_last_history(): the newest row of the instance by start_date,
\* or none. Rows with equal start_date are ordered by the database as it likes,
\* so every newest row is a candidate.
get_last_history(rs, inst) ==
    {i \in RowsOf(rs, inst) : \A j \in RowsOf(rs, inst) : rs[j].start_date <= rs[i].start_date}

\* create_history: a new, unsaved row. start_date is the one given, or the field's
\* default timezone.now (nowT) when none is given; end_date is the one given.
create_history(status_name, inst, size, start_date, end_date, activity, extra, nowT) ==
    [instance |-> inst, status |-> status_name, activity |-> activity,
     size |-> size, extra |-> extra,
     start_date |-> IF start_date # NULL THEN start_date ELSE nowT,
     end_date |-> end_date]

\* last_history.end_date = start_time; last_history.save()
CloseRowKeepsOpen(rs, id, start_time) == rs
CloseRow(rs, id, start_time) == [rs EXCEPT ![id].end_date = start_time]

\* The guard of transaction() when no last_history is supplied (lines 131-143):
\* "ok" or the ValueError raised.
GuardSkipsClosedCheck(rs, last) ==
    IF last = NULL THEN "ValueError" ELSE "ok"
LookupGuard(rs, last) ==
    IF last = NULL THEN "ValueError"
    ELSE IF rs[last].end_date # NULL THEN "ValueError"
    ELSE "ok"

\* The two writes of the atomic block (lines 144-162).
TxnWrites(rs, last, inst, p, start_time, nowT) ==
    Append(CloseRow(rs, last, start_time),
           create_history(p.status, inst, p.size, start_time, NULL, p.activity, p.extra, nowT))

NoCall == [kind |-> "none"]

\* `with transaction.atomic():` left by an exception (line 130): the writes made
\* inside the block (partial) are rolled back, the table is as before.
AtomicKeepsPartial(before, partial) == partial
Atomic(before, partial) == before

\* InstanceStatusHistory.transaction(status_name, activity, instance, size, extra,
\* start_time, last_history). `lh` is the supplied last_history (NULL: not
\* supplied); start_time is NULL when the caller leaves the default None;
\* `conflict` says whether the database raises DatabaseError on a write; nowT is
\* timezone.now().
Transaction(inst, p, start_time, lh, conflict, nowT) ==
    /\ txnCount < MaxTxn
    /\ txnCount' = txnCount + 1
    /\ UNCHANGED <<instEnd, activeVars, callVars, allocVars, pruneVars, extVars, jobVars>>
    /\ \E last \in (IF lh # NULL THEN {lh}
                    ELSE IF get_last_history(rows, inst) = {} THEN {NULL}
                    ELSE get_last_history(rows, inst)) :
         LET guard == IF lh # NULL THEN "ok" ELSE LookupGuard(rows, last)
             base == [instance |-> inst, payload |-> p, start_time |-> start_time,
                      last_history |-> lh, closed |-> last, before |-> rows]
         IN IF guard # "ok"
            THEN \* ValueError leaves the atomic block: rolled back, not caught
                 /\ ~conflict
                 /\ rows' = rows
                 /\ lastCall' = base @@ [kind |-> "ValueError", returned |-> NULL]
            ELSE IF conflict
            THEN \* DatabaseError on the second save: the first write is rolled
                 \* back, the error is logged (lines 164-168), the call returns None
                 /\ rows' = Atomic(rows, CloseRow(rows, last, start_time))
                 /\ lastCall' = base @@ [kind |-> "DatabaseError", returned |-> NULL]
            ELSE /\ rows' = TxnWrites(rows, last, inst, p, start_time, nowT)
                 /\ lastCall' = base @@ [kind |-> "ok", returned |-> Len(rows) + 1]

\* Ledgers the program builds: contiguous chains, the last row open unless the
\* instance has ended.
ChainShapes ==
    { [chain |-> << >>, ended |-> NULL],
      [chain |-> << <<0, NULL>> >>, ended |-> NULL],
      [chain |-> << <<0, 1>>, <<1, NULL>> >>, ended |-> NULL],
      [chain |-> << <<0, 1>> >>, ended |-> 1] }

ChainRows(inst, shape) ==
    [k \in 1..Len(shape.chain) |->
        Row(inst, CHOOSE p \in Payloads : p.status = (IF k = 1 THEN "active" ELSE "suspended"),
            shape.chain[k][1], shape.chain[k][2])]

\* The ledger before any call, instance i1 holding one of the chains above and
\* i2 a single open row.
InitialRows(s1) ==
    ChainRows("i1", s1) \o ChainRows("i2", [chain |-> << <<0, NULL>> >>, ended |-> NULL])
InitialInstEnd(s1) == [i \in Instances |-> IF i = "i1" THEN s1.ended ELSE NULL]

(***************************************************************************)
(* get_active_time                                                         *)
(***************************************************************************)
StatusNames == {"active", "running", "suspended", "error"}

\* is_active: 'active', or the legacy 'running'.
IsActiveAnyStatus(row) == TRUE
is_active(row) == row.status = "active" \/ row.status = "running"

\* When to start counting (lines 236-239).
ActiveStart(row, earliest_time) ==
    IF earliest_time # NULL /\ row.start_date <= earliest_time
    THEN earliest_time
    ELSE row.start_date

\* When to stop counting (lines 242-255); nowT is timezone.now().
ActiveFinalIgnoresEndDate(row, latest_time, nowT) ==
    IF latest_time # NULL THEN latest_time ELSE nowT
ActiveFinal(row, latest_time, nowT) ==
    IF latest_time # NULL
    THEN IF row.end_date = NULL \/ row.end_date >= latest_time
         THEN latest_time
         ELSE row.end_date
    ELSE IF row.end_date # NULL THEN row.end_date
    ELSE nowT

\* get_active_time(earliest_time, latest_time) -> (active_time, start_time, final_time)
get_active_time(row, earliest_time, latest_time, nowT) ==
    LET start_time == ActiveStart(row, earliest_time)
        final_time == ActiveFinal(row, latest_time, nowT)
    IN IF ~is_active(row)
       THEN [duration |-> 0, start |-> start_time, final |-> final_time]
       ELSE IF row.start_date > final_time
       THEN [duration |-> 0, start |-> start_time, final |-> final_time]
       ELSE [duration |-> final_time - start_time, start |-> start_time, final |-> final_time]

\* One call: the row and the window are fixed when the behaviour starts.
GetActiveTime ==
    /\ atCall.kind = "pending"
    /\ atCall' = [atCall EXCEPT !.kind = "called"] @@
                  [result |-> get_active_time(atCall.row, atCall.earliest_time,
                                              atCall.latest_time, atCall.now)]
    /\ UNCHANGED <<histVars, callVars, allocVars, pruneVars, extVars, jobVars>>

(***************************************************************************)
(* monitor_allocation_sources                                              *)
(***************************************************************************)
NumSources == 2    \* allocation sources in the database

\* Names are numbers so that order_by() has an order to sort by.
SourceNames == 1..NumSources
\* AllocationSource.all_users: source s is shared by users s and s+1.
all_users(s) == {s, s + 1}
Usernames == 1..(NumSources + 1)

Overrides == {"NO_OVERRIDE", "ALWAYS_ENFORCE", "NEVER_ENFORCE"}

\* order_by(): the elements of a set of numbers, ascending.
RECURSIVE OrderDescending(_)
OrderDescending(S) ==
    IF S = {} THEN << >>
    ELSE LET most == CHOOSE x \in S : \A y \in S : x >= y
         IN <<most>> \o OrderDescending(S \ {most})
RECURSIVE order_by(_)
order_by(S) ==
    IF S = {} THEN << >>
    ELSE LET least == CHOOSE x \in S : \A y \in S : x <= y
         IN <<least>> \o order_by(S \ {least})

\* The iterations of the nested loops (lines 550-555), in loop order.
RECURSIVE PairsOf(_, _)
PairsOf(s, users) ==
    IF users = << >> THEN << >>
    ELSE << <<s, Head(users)>> >> \o PairsOf(s, Tail(users))

RECURSIVE LoopOrder(_)
LoopOrder(sources) ==
    IF sources = << >> THEN << >>
    ELSE PairsOf(Head(sources), order_by(all_users(Head(sources)))) \o LoopOrder(Tail(sources))

\* The decision of one iteration (lines 576-602): "skip", "enforce", or the
\* AssertionError of line 592.
DecisionIgnoresNever(over_allocation, choice) ==
    IF over_allocation \/ choice = "ALWAYS_ENFORCE" THEN "enforce" ELSE "skip"
Decision(over_allocation, choice) ==
    IF over_allocation /\ choice = "NEVER_ENFORCE" THEN "skip"
    ELSE IF over_allocation \/ choice = "ALWAYS_ENFORCE"
    THEN IF choice \in {"NO_OVERRIDE", "ALWAYS_ENFORCE"} THEN "enforce" ELSE "AssertionError"
    ELSE "skip"

\* monitor_allocation_sources(usernames): the queries of lines 549-555.
MonitorStart(usernames) ==
    /\ allocPc = "idle"
    /\ allocPc' = "loop"
    /\ usernamesArg' = usernames
    /\ allocQueue' = LoopOrder(order_by(SourceNames))
    /\ UNCHANGED <<ENFORCING, visitLog, dispatched>>
    /\ UNCHANGED <<histVars, activeVars, callVars, pruneVars, extVars, jobVars>>

\* One iteration of the inner loop; over_allocation and choice are what
\* is_over_allocation() and the override plugin answer.
MonitorVisit(over_allocation, choice) ==
    /\ allocPc = "loop"
    /\ allocQueue # << >>
    /\ LET s == Head(allocQueue)[1]
           u == Head(allocQueue)[2]
           filtered == usernamesArg # {} /\ u \notin usernamesArg
           action == IF filtered THEN "filtered" ELSE Decision(over_allocation, choice)
       IN /\ filtered => (~over_allocation /\ choice = "NO_OVERRIDE")
          /\ visitLog' = Append(visitLog,
                [source |-> s, user |-> u, over_allocation |-> over_allocation,
                 choice |-> choice, action |-> action])
          /\ dispatched' = IF action = "enforce" THEN Append(dispatched, <<s, u>>)
                           ELSE dispatched
          /\ allocPc' = IF action = "AssertionError" THEN "crashed" ELSE "loop"
          /\ allocQueue' = Tail(allocQueue)
    /\ UNCHANGED <<ENFORCING, usernamesArg>>
    /\ UNCHANGED <<histVars, activeVars, callVars, pruneVars, extVars, jobVars>>

\* The loops are exhausted: the task returns.
MonitorReturn ==
    /\ allocPc = "loop"
    /\ allocQueue = << >>
    /\ allocPc' = "done"
    /\ UNCHANGED <<ENFORCING, allocQueue, usernamesArg, visitLog, dispatched>>
    /\ UNCHANGED <<histVars, activeVars, callVars, pruneVars, extVars, jobVars>>

(***************************************************************************)
(* prune_machines_for                                                      *)
(***************************************************************************)
MaxRuns == 2       \* passes per behaviour: the first and its repetitions

Threshold == 128   \* the membership count at which a set is taken as corrupted

Machines == {"m1", "m2", "m3"}
Versions == {"v1", "v2", "v3"}
Apps == {"a1", "a2", "a3"}
Providers == {"p1", "p2"}
Idents == {"img1", "img2", "img3"}
Groups == 1..(Threshold + 3)

\* The foreign keys of three databases: which version a machine belongs to, which
\* application a version belongs to, where a machine lives and how it is called
\* there, and which providers are active.
Worlds ==
    { \* a1 > v1 > {m1};  a2 > v2 > {m2, m3};  v3 has no machine;  a3 has no version
      [verOf |-> ("m1" :> "v1" @@ "m2" :> "v2" @@ "m3" :> "v2"),
       appOf |-> ("v1" :> "a1" @@ "v2" :> "a2" @@ "v3" :> "a2"),
       provOf |-> ("m1" :> "p1" @@ "m2" :> "p1" @@ "m3" :> "p1"),
       identOf |-> ("m1" :> "img1" @@ "m2" :> "img2" @@ "m3" :> "img3"),
       active |-> ("p1" :> TRUE @@ "p2" :> TRUE)],
      \* a1 > {v1 > {m1}, v2 > {m2}};  a2 > v3 > {m3 on p2};  a3 has no version
      [verOf |-> ("m1" :> "v1" @@ "m2" :> "v2" @@ "m3" :> "v3"),
       appOf |-> ("v1" :> "a1" @@ "v2" :> "a1" @@ "v3" :> "a2"),
       provOf |-> ("m1" :> "p1" @@ "m2" :> "p1" @@ "m3" :> "p2"),
       identOf |-> ("m1" :> "img1" @@ "m2" :> "img2" @@ "m3" :> "img1"),
       active |-> ("p1" :> TRUE @@ "p2" :> TRUE)],
      \* a1 > {v1 > {m1 on p1, m2 on p2}, v2 > {m3}};  v3 of a3 has no machine;
      \* p2 is not active
      [verOf |-> ("m1" :> "v1" @@ "m2" :> "v1" @@ "m3" :> "v2"),
       appOf |-> ("v1" :> "a1" @@ "v2" :> "a1" @@ "v3" :> "a3"),
       provOf |-> ("m1" :> "p1" @@ "m2" :> "p2" @@ "m3" :> "p1"),
       identOf |-> ("m1" :> "img1" @@ "m2" :> "img2" @@ "m3" :> "img3"),
       active |-> ("p1" :> TRUE @@ "p2" :> FALSE)] }

MachinesOf(v) == {m \in Machines : topo.verOf[m] = v}
VersionsOf(a) == {v \in Versions : topo.appOf[v] = a}
AppOfMachine(m) == topo.appOf[topo.verOf[m]]

\* core.query.only_current(now_time) and only_current_source(): not end-dated,
\* or end-dated later than now_time.
only_current(end_date, now_time) == end_date = NULL \/ end_date > now_time

\* The filter remove_machine applies to the machines of a version (lines 406-410).
machine_is_current(end_date, now_time) == end_date = NULL \/ end_date > now_time

\* Model.end_date_all(now): end-date a record that is not end-dated yet.
end_date_all(end_date, now_time) == IF end_date = NULL THEN now_time ELSE end_date

\* core.query.inactive_versions(): no version of the application is current.
inactive_versions(d, a, now_time) ==
    \A v \in VersionsOf(a) : ~only_current(d.vEnd[v], now_time)

\* remove_machine(db_machine, now_time, dry_run)
RemoveMachineNoCascade(d, m, now_time, dry_run) ==
    IF dry_run THEN d ELSE [d EXCEPT !.mEnd[m] = now_time]
RemoveMachineAlwaysCascades(d, m, now_time, dry_run) ==
    IF dry_run THEN d
    ELSE [d EXCEPT !.mEnd[m] = now_time,
                   !.vEnd[topo.verOf[m]] = now_time,
                   !.aEnd[AppOfMachine(m)] = now_time]
remove_machine(d, m, now_time, dry_run) ==
    LET db_version == topo.verOf[m]
        db_application == topo.appOf[db_version]
        d1 == IF dry_run THEN d ELSE [d EXCEPT !.mEnd[m] = now_time]
        d2 == IF dry_run THEN d1 ELSE [d1 EXCEPT !.vEnd[db_version] = now_time]
        d3 == IF dry_run THEN d2 ELSE [d2 EXCEPT !.aEnd[db_application] = now_time]
    IN IF \E x \in MachinesOf(db_version) : machine_is_current(d1.mEnd[x], now_time)
       THEN d1      \* other machines exist: no cascade
       ELSE IF \E x \in VersionsOf(db_application) : only_current(d2.vEnd[x], now_time)
       THEN d2      \* other versions exist: no cascade
       ELSE d3

\* _end_date_missing_database_machines(db_machines, cloud_machines, now, dry_run)
RECURSIVE EndDateKeepsNothing(_, _, _, _, _)
EndDateKeepsNothing(d, db_machines, cloud_machine_ids, now_time, dry_run) ==
    IF db_machines = << >> THEN d
    ELSE EndDateKeepsNothing(remove_machine(d, Head(db_machines), now_time, dry_run),
                             Tail(db_machines), cloud_machine_ids, now_time, dry_run)
RECURSIVE end_date_missing_database_machines(_, _, _, _, _)
end_date_missing_database_machines(d, db_machines, cloud_machine_ids, now_time, dry_run) ==
    IF db_machines = << >> THEN d
    ELSE LET machine == Head(db_machines)
             cloud_match == {id \in cloud_machine_ids : id = topo.identOf[machine]}
             d1 == IF cloud_match = {} THEN remove_machine(d, machine, now_time, dry_run)
                   ELSE d
         IN end_date_missing_database_machines(d1, Tail(db_machines), cloud_machine_ids,
                                               now_time, dry_run)

\* _remove_versions_without_machines(now)
remove_versions_without_machines(d, now_time) ==
    [d EXCEPT !.vEnd = [v \in Versions |->
        IF MachinesOf(v) = {} /\ d.vEnd[v] = NULL
        THEN end_date_all(d.vEnd[v], now_time) ELSE d.vEnd[v]]]

\* _remove_applications_without_versions(now)
remove_applications_without_versions(d, now_time) ==
    [d EXCEPT !.aEnd = [a \in Apps |->
        IF VersionsOf(a) = {} /\ d.aEnd[a] = NULL
        THEN end_date_all(d.aEnd[a], now_time) ELSE d.aEnd[a]]]

\* _update_improperly_enddated_applications(now): the filter keeps applications
\* whose end_date is set (end_date__isnull=False).
update_improperly_enddated_applications(d, now_time) ==
    [d EXCEPT !.aEnd = [a \in Apps |->
        IF inactive_versions(d, a, now_time) /\ d.aEnd[a] # NULL
        THEN end_date_all(d.aEnd[a], now_time) ELSE d.aEnd[a]]]

\* MachineRequest.objects.filter(new_machine of the version, completed).last()
LastRequest(d, v) ==
    IF \E m \in MachinesOf(v) : d.request[m].exists
    THEN (CHOOSE m \in MachinesOf(v) : d.request[m].exists)
    ELSE "none"

\* service.machine.remove_membership(image_version, group), called for every
\* group of `members` (lines 850-852): with a completed MachineRequest, the
\* groups outside its access list lose their grants on the version, its
\* machines and its application; without one nothing is removed. The calls touch
\* disjoint grants, so their order does not matter.
remove_membership(d, v, members) ==
    IF LastRequest(d, v) = "none" THEN d
    ELSE LET gone == members \ d.request[LastRequest(d, v)].access_list
         IN [d EXCEPT !.pmMem = [m \in Machines |->
                            IF m \in MachinesOf(v) THEN d.pmMem[m] \ gone ELSE d.pmMem[m]],
                      !.verMem[v] = d.verMem[v] \ gone,
                      !.appMem[topo.appOf[v]] = d.appMem[topo.appOf[v]] \ gone]

\* The set _clean_memberships settles on for one machine (lines 841-847).
MembersQs(d, m) ==
    LET q1 == d.pmMem[m]
        q2 == IF Cardinality(q1) < Threshold THEN d.verMem[topo.verOf[m]] ELSE q1
        q3 == IF Cardinality(q2) < Threshold THEN d.appMem[AppOfMachine(m)] ELSE q2
    IN q3

\* _clean_memberships(db_machines, acct_driver)
RECURSIVE CleanWithoutRequest(_, _)
CleanWithoutRequest(d, db_machines) ==
    IF db_machines = << >> THEN d
    ELSE LET m == Head(db_machines)
             d1 == IF Cardinality(MembersQs(d, m)) < Threshold THEN d
                   ELSE [d EXCEPT !.pmMem[m] = {}, !.verMem[topo.verOf[m]] = {},
                                  !.appMem[AppOfMachine(m)] = {}]
         IN CleanWithoutRequest(d1, Tail(db_machines))
CleanRemovesNothing(d, db_machines) == d
RECURSIVE clean_memberships(_, _)
clean_memberships(d, db_machines) ==
    IF db_machines = << >> THEN d
    ELSE LET m == Head(db_machines)
             members_qs == MembersQs(d, m)
             d1 == IF Cardinality(members_qs) < Threshold THEN d
                   ELSE remove_membership(d, topo.verOf[m], members_qs)
         IN clean_memberships(d1, Tail(db_machines))

\* The rows a lazy queryset yields come in an order the database chooses.
Orderings(S) ==
    {f \in [1..Cardinality(S) -> S] : \A i, j \in 1..Cardinality(S) : f[i] = f[j] => i = j}

\* ProviderMachine.objects.filter(only_current_source(), instance_source__provider=provider)
CurrentMachines(d, provider, now_time) ==
    {m \in Machines : topo.provOf[m] = provider /\ only_current(d.mEnd[m], now_time)}

\* The validated cloud snapshot (lines 118-137): identifiers the cloud lists,
\* less those the validator rejects when validate is set.
CloudSeesEverything(a) == Idents
CloudMachines(a) ==
    {id \in (IF topo.active[a.provider] THEN a.cloud ELSE {}) :
        ~a.validate \/ id \notin a.invalid}

\* Entry without the guard of lines 140-141.
EntryWithoutGuard(a) ==
    /\ clock' = clock + 1
    /\ pre' = db
    /\ db' = db
    /\ run' = run + 1
    /\ args' = [provider |-> a.provider, cloud |-> a.cloud, invalid |-> a.invalid,
                validate |-> a.validate, dry_run |-> a.dry_run,
                forced_removal |-> a.forced_removal,
                now |-> clock, cloud_machines |-> CloudMachines(a), db_machines |-> << >>]
    /\ pc' = IF ~topo.active[a.provider] THEN "crashed" ELSE "orphans"
    /\ UNCHANGED <<topo, histVars, activeVars, callVars, allocVars, extVars, jobVars>>

\* prune_machines_for up to its first loop (lines 110-141). An inactive provider
\* leaves account_driver unbound, and line 131 raises on reading it.
Entry(a) ==
    /\ clock' = clock + 1
    /\ pre' = db
    /\ db' = db
    /\ run' = run + 1
    /\ args' = [provider |-> a.provider, cloud |-> a.cloud, invalid |-> a.invalid,
                validate |-> a.validate, dry_run |-> a.dry_run,
                forced_removal |-> a.forced_removal,
                now |-> clock, cloud_machines |-> CloudMachines(a), db_machines |-> << >>]
    /\ pc' = IF ~topo.active[a.provider] THEN "crashed"
             ELSE IF CloudMachines(a) = {} /\ ~a.forced_removal THEN "returned"
             ELSE "orphans"
    /\ UNCHANGED <<topo, histVars, activeVars, callVars, allocVars, extVars, jobVars>>

PruneStart(provider, cloud, invalid, validate, dry_run, forced_removal) ==
    /\ pc = "idle"
    /\ Entry([provider |-> provider, cloud |-> cloud, invalid |-> invalid,
              validate |-> validate, dry_run |-> dry_run,
              forced_removal |-> forced_removal])

\* The same task run again, with the cloud as it was.
Rerun ==
    /\ pc \in {"done", "returned", "crashed"}
    /\ run < MaxRuns
    /\ Entry(args)

\* Loop 1 (lines 143-147); the queryset db_machines is evaluated here and keeps
\* its rows for _clean_memberships.
EndDateMissing ==
    /\ pc = "orphans"
    /\ \E db_machines \in Orderings(CurrentMachines(db, args.provider, args.now)) :
        /\ db' = end_date_missing_database_machines(db, db_machines, args.cloud_machines,
                                                    args.now, args.dry_run)
        /\ args' = [args EXCEPT !.db_machines = db_machines]
    /\ pc' = "versions"
    /\ UNCHANGED <<topo, clock, pre, run, histVars, activeVars, callVars, allocVars, extVars, jobVars>>

\* Loop 2 (line 152)
RemoveVersions ==
    /\ pc = "versions"
    /\ db' = remove_versions_without_machines(db, args.now)
    /\ pc' = "apps"
    /\ UNCHANGED <<topo, clock, args, pre, run, histVars, activeVars, callVars, allocVars, extVars, jobVars>>

\* Loop 3 (line 153)
RemoveApps ==
    /\ pc = "apps"
    /\ db' = remove_applications_without_versions(db, args.now)
    /\ pc' = "repair"
    /\ UNCHANGED <<topo, clock, args, pre, run, histVars, activeVars, callVars, allocVars, extVars, jobVars>>

\* Loop 4 (line 158)
RepairAfterCleanup ==
    /\ pc = "repair"
    /\ db' = update_improperly_enddated_applications(clean_memberships(db, args.db_machines),
                                                     args.now)
    /\ pc' = "done"
    /\ UNCHANGED <<topo, clock, args, pre, run, histVars, activeVars, callVars, allocVars, extVars, jobVars>>
Repair ==
    /\ pc = "repair"
    /\ db' = update_improperly_enddated_applications(db, args.now)
    /\ pc' = "clean"
    /\ UNCHANGED <<topo, clock, args, pre, run, histVars, activeVars, callVars, allocVars, extVars, jobVars>>

\* line 163
Clean ==
    /\ pc = "clean"
    /\ db' = clean_memberships(db, args.db_machines)
    /\ pc' = "done"
    /\ UNCHANGED <<topo, clock, args, pre, run, histVars, activeVars, callVars, allocVars, extVars, jobVars>>

NoRequest == [exists |-> FALSE, access_list |-> {}]
Request(access_list) == [exists |-> TRUE, access_list |-> access_list]
NoMembers(S) == [x \in S |-> {}]
AllNull(S) == [x \in S |-> NULL]

\* End dates a database may hold when a pass starts: unset, in the past (0), or
\* set to a time that is still ahead at the first pass and behind at the second.
MachineEnds ==
    [Machines -> {NULL, 0}]
        \cup {[AllNull(Machines) EXCEPT ![m] = 2] : m \in {"m1", "m2"}}
VersionEnds ==
    {AllNull(Versions), [AllNull(Versions) EXCEPT !["v1"] = 0],
     [AllNull(Versions) EXCEPT !["v2"] = 2]}
AppEnds ==
    {AllNull(Apps), [AllNull(Apps) EXCEPT !["a1"] = 0],
     [AllNull(Apps) EXCEPT !["a2"] = 0]}

\* Membership tables: none; a machine set over the threshold beside an
\* application set over it, with a completed request; a machine set over the
\* threshold with no request; a version set exactly at the threshold; a machine
\* set just under it.
MemberTables ==
    { [pmMem |-> [NoMembers(Machines) EXCEPT !["m1"] = 1..(Threshold + 1)],
       verMem |-> NoMembers(Versions),
       appMem |-> [NoMembers(Apps) EXCEPT !["a1"] =
                        (1..(Threshold - 1)) \cup {Threshold + 2, Threshold + 3}],
       request |-> [[m \in Machines |-> NoRequest] EXCEPT
                        !["m1"] = Request(1..(Threshold - 1))]],
      [pmMem |-> [NoMembers(Machines) EXCEPT !["m1"] = 1..(Threshold + 1)],
       verMem |-> NoMembers(Versions),
       appMem |-> NoMembers(Apps),
       request |-> [m \in Machines |-> NoRequest]],
      [pmMem |-> NoMembers(Machines),
       verMem |-> [NoMembers(Versions) EXCEPT !["v2"] = 1..Threshold],
       appMem |-> NoMembers(Apps),
       request |-> [[m \in Machines |-> NoRequest] EXCEPT !["m2"] = Request({1, 2})]],
      [pmMem |-> [NoMembers(Machines) EXCEPT !["m1"] = 1..(Threshold - 1)],
       verMem |-> NoMembers(Versions),
       appMem |-> NoMembers(Apps),
       request |-> [[m \in Machines |-> NoRequest] EXCEPT !["m1"] = Request({1})]] }

EmptyTables ==
    [pmMem |-> NoMembers(Machines), verMem |-> NoMembers(Versions),
     appMem |-> NoMembers(Apps), request |-> [m \in Machines |-> NoRequest]]

Database(mEnd, vEnd, aEnd, t) ==
    [mEnd |-> mEnd, vEnd |-> vEnd, aEnd |-> aEnd, pmMem |-> t.pmMem,
     verMem |-> t.verMem, appMem |-> t.appMem, request |-> t.request]

FirstWorld == CHOOSE w \in Worlds : \A m \in Machines : w.provOf[m] = "p1"

NoArgs == [provider |-> "p1"]

IdleDb == Database(AllNull(Machines), AllNull(Versions), AllNull(Apps), EmptyTables)

(***************************************************************************)
(* monitor_machines_for: membership reconciliation                         *)
(***************************************************************************)
MaxPasses == 2     \* monitor_machines_for passes per behaviour

\* The machine convert_glance_image hands back for a cloud image: the record of
\* this provider with the image's identifier, or none.
MachineFor(provider, id) ==
    {m \in Machines : topo.provOf[m] = provider /\ topo.identOf[m] = id}

\* MachineRequest.objects.filter(new_machine identifier = id, completed).last()
has_machine_request(d, id) ==
    LET with == {m \in Machines : topo.identOf[m] = id /\ d.request[m].exists}
    IN IF with = {} THEN "none" ELSE CHOOSE m \in with : TRUE

\* _get_all_access_list: owner, projects the cloud already shares the image
\* with, the access list of the last completed request, the names matched by
\* the application's patterns. cm is the cloud image: id, visibility,
\* application_owner (a name or NULL), members, pattern (matched names).
AccessListWithoutRequest(d, cm) ==
    (IF cm.application_owner # NULL THEN {cm.application_owner} ELSE {})
        \cup cm.members \cup cm.pattern
get_all_access_list(d, cm) ==
    LET owner_set == IF cm.application_owner # NULL THEN {cm.application_owner} ELSE {}
        cloud_shared_set == cm.members
        machine_request_set ==
            IF has_machine_request(d, cm.id) = "none" THEN {}
            ELSE d.request[has_machine_request(d, cm.id)].access_list
        access_list_set == cm.pattern
    IN owner_set \cup cloud_shared_set \cup machine_request_set \cup access_list_set

\* service.machine.update_db_membership_for_group(db_machine, group): create the
\* grants of the group on the machine, its version and its application that
\* are missing.
update_db_membership_for_group(d, m, groups) ==
    [d EXCEPT !.pmMem[m] = d.pmMem[m] \cup groups,
              !.verMem[topo.verOf[m]] = d.verMem[topo.verOf[m]] \cup groups,
              !.appMem[AppOfMachine(m)] = d.appMem[AppOfMachine(m)] \cup groups]

\* update_image_membership(account_driver, cloud_machine, db_machine). The
\* groups are looked up (line 366) before the access list replaces the names
\* (line 384), so the loop of line 386 runs over the groups of all names.
UpdateResetsToAccessList(d, cm, m) ==
    IF has_machine_request(d, cm.id) = "none" THEN d
    ELSE [d EXCEPT !.pmMem[m] = d.request[has_machine_request(d, cm.id)].access_list]
update_image_membership(d, cm, m) ==
    IF cm.visibility = "public" THEN d
    ELSE LET shared_project_names == get_all_access_list(d, cm)
             groups == shared_project_names \cap Groups
         IN IF Cardinality(shared_project_names) > Threshold
                /\ has_machine_request(d, cm.id) = "none"
            THEN d
            ELSE update_db_membership_for_group(d, m, groups)

\* distribute_image_membership: every group holding a grant on the machine is
\* added to the image's members on the cloud, but for the groups whose call
\* times out (TimeoutError is caught). The database is only read.
distribute_image_membership(d, members, m, timed_out) ==
    members \cup (d.pmMem[m] \ timed_out)

\* Names: the groups, and 0, a project name no Group row carries.
Names == Groups \cup {0}

CloudMemberTables ==
    { [id \in Idents |-> {}],
      [id \in Idents |-> IF id = "img1" THEN {1, 2, 0} ELSE {}],
      [id \in Idents |-> IF id = "img1" THEN 1..(Threshold + 1) ELSE {3}] }

\* monitor_machines_for(provider_id, limit_machines, validate) up to its loop
\* (lines 199-228). has_driver: get_account_driver found a driver.
MachinesStart(provider, snapshot, limit_machines, validate, has_driver) ==
    /\ mm.kind \in {"none", "done"}
    /\ mm.passes < MaxPasses
    /\ ~has_driver => (snapshot = {"img1", "img2"} /\ limit_machines = {} /\ validate)
    /\ \E queue \in Orderings(IF limit_machines # {} THEN snapshot \cap limit_machines
                              ELSE snapshot) :
          mm' = [mm EXCEPT !.kind = IF has_driver THEN "loop" ELSE "done",
                           !.provider = provider, !.validate = validate,
                           !.queue = IF has_driver THEN queue ELSE << >>,
                           !.db_machines = << >>,
                           !.passes = mm.passes + 1]
    /\ UNCHANGED <<enf, nav, histVars, activeVars, callVars, allocVars, pruneVars, jobVars>>

\* One iteration of the loop of lines 229-253 for the next cloud image.
MachinesVisit(visibility, owner, pattern, valid, timed_out) ==
    /\ mm.kind = "loop"
    /\ mm.queue # << >>
    /\ LET id == Head(mm.queue)
           cm == [id |-> id, visibility |-> visibility, application_owner |-> owner,
                  members |-> mm.cloud[id], pattern |-> pattern]
           found == MachineFor(mm.provider, id)
       IN IF (mm.validate /\ ~valid) \/ found = {}
          THEN \* skipped by the validator, or convert_glance_image gave no machine;
               \* nothing else of the image is read
               /\ visibility = "private" /\ owner = NULL /\ pattern = {} /\ timed_out = {}
               /\ mm' = [mm EXCEPT !.queue = Tail(mm.queue)]
               /\ UNCHANGED db
          ELSE \E m \in found :
               LET d1 == update_image_membership(db, cm, m)
               IN /\ valid \/ ~mm.validate
                  /\ visibility = "public" => (owner = NULL /\ pattern = {})
                  /\ ~ENFORCING => timed_out = {}
                  /\ db' = d1
                  /\ mm' = [mm EXCEPT
                        !.queue = Tail(mm.queue),
                        !.db_machines = Append(mm.db_machines, m),
                        !.cloud[id] = IF ENFORCING
                                      THEN distribute_image_membership(d1, mm.cloud[id], m,
                                                                       timed_out)
                                      ELSE mm.cloud[id]]
    /\ UNCHANGED <<topo, clock, pc, args, pre, run>>
    /\ UNCHANGED <<enf, nav, histVars, activeVars, callVars, allocVars, jobVars>>

\* lines 260-262: return db_machines
MachinesReturn ==
    /\ mm.kind = "loop"
    /\ mm.queue = << >>
    /\ mm' = [mm EXCEPT !.kind = "done"]
    /\ UNCHANGED <<enf, nav, histVars, activeVars, callVars, allocVars, pruneVars, jobVars>>

(***************************************************************************)
(* allocation_source_overage_enforcement_for_user                          *)
(***************************************************************************)
MaxIdentities == 3   \* identities a user holds

Identities == 1..MaxIdentities

\* What allocation_source_overage_enforcement_for returns for an identity when
\* it does not raise: the instances it acted on, named <<identity, k>>.
AffectedLists(identity) ==
    { << >>, << <<identity, 1>> >>, << <<identity, 1>>, <<identity, 2>> >> }

\* The body of the loop for one identity (lines 613-626): the affected
\* instances are appended, or the exception is logged and swallowed.
AfterIdentityPropagates(e, identity, raised, affected) ==
    IF raised
    THEN [e EXCEPT !.kind = "raised", !.queue = << >>]
    ELSE [e EXCEPT !.queue = Tail(e.queue),
                   !.user_instances = e.user_instances \o affected,
                   !.log = Append(e.log, [identity |-> identity, raised |-> FALSE,
                                          affected |-> affected])]
AfterIdentity(e, identity, raised, affected) ==
    [e EXCEPT !.queue = Tail(e.queue),
              !.user_instances = IF raised THEN e.user_instances
                                 ELSE e.user_instances \o affected,
              !.log = Append(e.log, [identity |-> identity, raised |-> raised,
                                     affected |-> IF raised THEN << >> ELSE affected])]

\* lines 611-612: user_instances = [], the loop over user.current_identities
EnforceStart(current_identities) ==
    /\ enf.kind = "none"
    /\ \E queue \in Orderings(current_identities) :
          enf' = [kind |-> "loop", identities |-> queue, queue |-> queue,
                  user_instances |-> << >>, log |-> << >>]
    /\ UNCHANGED <<mm, nav, histVars, activeVars, callVars, allocVars, pruneVars, jobVars>>

EnforceIdentity(raised, affected) ==
    /\ enf.kind = "loop"
    /\ enf.queue # << >>
    /\ affected \in AffectedLists(Head(enf.queue))
    /\ raised => affected = << >>
    /\ enf' = AfterIdentity(enf, Head(enf.queue), raised, affected)
    /\ UNCHANGED <<mm, nav, histVars, activeVars, callVars, allocVars, pruneVars, jobVars>>

\* line 627: return user_instances
EnforceReturn ==
    /\ enf.kind = "loop"
    /\ enf.queue = << >>
    /\ enf' = [enf EXCEPT !.kind = "returned"]
    /\ UNCHANGED <<mm, nav, histVars, activeVars, callVars, allocVars, pruneVars, jobVars>>

(***************************************************************************)
(* InstanceStatusHistory.previous                                          *)
(***************************************************************************)
\* A contiguous chain of instance inst whose rows start at the times of the
\* non-decreasing sequence b, the last row open or closed at the last time of b.
ChainSeq(inst, b, open) ==
    LET n == IF open THEN Len(b) ELSE Len(b) - 1
    IN [k \in 1..n |->
          Row(inst, CHOOSE p \in Payloads : p.status = (IF k % 2 = 1 THEN "active" ELSE "suspended"),
              b[k], IF k < Len(b) THEN b[k + 1] ELSE NULL)]

\* The same over the set B of distinct times.
ChainOver(inst, B, open) == ChainSeq(inst, order_by(B), open)

\* The boundaries b with the time d repeated: the row between the two copies
\* starts and ends at d (two status changes recorded with the same start_time).
WithRepeat(b, d) ==
    IF d = NULL THEN b
    ELSE LET k == CHOOSE k \in 1..Len(b) : b[k] = d
         IN SubSeq(b, 1, k) \o SubSeq(b, k, Len(b))

\* self.instance.instancestatushistory_set.get(start_date=self.end_date), then
\* the check of line 73; nothing is returned after it (the method ends at line
\* 82 without a return statement).
previous(rs, inst_start, id) ==
    LET matches == {i \in RowsOf(rs, rs[id].instance) :
                        rs[id].end_date # NULL /\ rs[i].start_date = rs[id].end_date}
    IN IF inst_start = rs[id].start_date
       THEN [kind |-> "LookupError", value |-> NULL]
       ELSE IF matches = {}
       THEN [kind |-> "ValueError", value |-> NULL]          \* ObjectDoesNotExist
       ELSE IF Cardinality(matches) > 1
       THEN [kind |-> "MultipleObjectsReturned", value |-> NULL]
       ELSE IF matches = {id}
       THEN [kind |-> "ValueError", value |-> NULL]
       ELSE [kind |-> "returned", value |-> NULL]            \* falls off the end: None

\* One previous() call on the row chosen when the behaviour starts.
Previous ==
    /\ nav.kind = "pending"
    /\ nav' = [nav EXCEPT !.kind = "called"] @@
               [result |-> previous(rows, nav.inst_start, nav.id)]
    /\ UNCHANGED <<mm, enf, histVars, activeVars, callVars, allocVars, pruneVars, jobVars>>

(***************************************************************************)
(* InstanceStatusHistory.next                                              *)
(***************************************************************************)
\* An open row (lines 89-97): the instance has ended but the row has not, or
\* the row is the final state of a running instance.
OpenRowAlwaysBoundary(inst_end) == "LookupError"
OpenRowSignal(inst_end) ==
    IF inst_end # NULL THEN "ValueError" ELSE "LookupError"

\* self.instance.instancestatushistory_set.get(start_date=self.end_date)
\* (lines 108-116): the row, ValueError for ObjectDoesNotExist, or the
\* MultipleObjectsReturned that get() raises and nothing here catches.
GetByStartDate(rs, id) ==
    LET matches == {i \in RowsOf(rs, rs[id].instance) : rs[i].start_date = rs[id].end_date}
    IN IF matches = {}
       THEN [kind |-> "ValueError", value |-> NULL]
       ELSE IF Cardinality(matches) > 1
       THEN [kind |-> "MultipleObjectsReturned", value |-> NULL]
       ELSE [kind |-> "returned", value |-> CHOOSE i \in matches : TRUE]

\* next() on row id; last is what self.instance.get_last_history() answers.
next(rs, inst_end, id, last) ==
    IF rs[id].end_date = NULL
    THEN [kind |-> OpenRowSignal(inst_end), value |-> NULL]
    ELSE IF inst_end = rs[id].end_date
    THEN [kind |-> "LookupError", value |-> NULL]
    ELSE IF id = last
    THEN [kind |-> "LookupError", value |-> NULL]
    ELSE GetByStartDate(rs, id)

\* A caller walking the list forwards: next() on the current row, then on the
\* row it returned, until next() raises (or hands back a row already seen).
NextCall ==
    /\ nav.kind = "walking"
    /\ \E last \in get_last_history(rows, rows[nav.id].instance) :
          LET r == next(rows, instEnd[rows[nav.id].instance], nav.id, last)
              seen == {nav.visited[k] : k \in 1..Len(nav.visited)}
          IN IF r.kind = "returned" /\ r.value \notin seen
             THEN nav' = [nav EXCEPT !.id = r.value, !.visited = Append(@, r.value)]
             ELSE nav' = [nav EXCEPT !.kind = "walked", !.result = r]
    /\ UNCHANGED <<mm, enf, histVars, activeVars, callVars, allocVars, pruneVars, jobVars>>

(***************************************************************************)
(* monitor_volumes_for                                                     *)
(***************************************************************************)
\* The Volume rows there can be, by the provider of their instance_source;
\* whether the row exists and its end_date vary.
VolIds == {"vol1", "vol2", "vol3", "vol4"}
VolProvider == ("vol1" :> "p1" @@ "vol2" :> "p1" @@ "vol3" :> "p1" @@ "vol4" :> "p2")
VolumesOf(provider) == {v \in VolIds : VolProvider[v] = provider}

NewVolume == [exists |-> TRUE, end |-> NULL]

\* convert_esh_volume(cloud_volume, provider_uuid): the Volume row with that
\* identifier on the provider; ObjectDoesNotExist when there is none and no
\* identity is given to create it with.
ConvertRaises(t, v) == ~t[v].exists

\* The loop of lines 714-745 over the cloud volumes. identified are the cloud
\* volumes whose tenant and identity the fallback finds (lines 720-738): it
\* creates their rows; the others are skipped. seen_volumes gets the volumes
\* that the first convert_esh_volume returned (line 719).
SeenVolumes(t, all_volumes) == {v \in all_volumes : ~ConvertRaises(t, v)}
RegisterVolumes(t, all_volumes, identified) ==
    [v \in VolIds |->
        IF v \in all_volumes /\ ConvertRaises(t, v) /\ v \in identified
        THEN NewVolume ELSE t[v]]

\* Lines 747-754: db_volumes (evaluated here, after the loop) less seen_volumes
\* is end-dated now.
EndDateUnseenVolumes(t, provider, seen_volumes, now_time) ==
    [v \in VolIds |->
        IF /\ t[v].exists /\ VolProvider[v] = provider
           /\ only_current(t[v].end, now_time)
           /\ v \notin seen_volumes
        THEN [t[v] EXCEPT !.end = now_time]
        ELSE t[v]]

\* monitor_volumes_for(provider_id)
VolumesPass(provider, all_volumes, identified) ==
    /\ vol.kind \in {"idle", "returned"}
    /\ vol.passes < MaxPasses
    /\ all_volumes \subseteq VolumesOf(provider)
    \* the fallback is asked about the volumes the first conversion failed on
    /\ identified \subseteq {v \in all_volumes : ConvertRaises(vol.db, v)}
    /\ LET seen_volumes == SeenVolumes(vol.db, all_volumes)
           registered == RegisterVolumes(vol.db, all_volumes, identified)
       IN vol' = [kind |-> "returned", provider |-> provider,
                  all_volumes |-> all_volumes, identified |-> identified,
                  seen_volumes |-> seen_volumes, now |-> clock,
                  before |-> vol.db,
                  db |-> EndDateUnseenVolumes(registered, provider, seen_volumes, clock),
                  passes |-> vol.passes + 1]
    /\ clock' = clock + 1
    /\ UNCHANGED <<topo, db, pc, args, pre, run, histVars, activeVars, callVars, allocVars, extVars,
                   sz, top, share>>

\* Volume tables before a pass: rows absent, current, or end-dated in the past.
VolumeTables ==
    LET row(e, d) == [exists |-> e, end |-> d]
    IN { [v \in VolIds |->
            IF v = "vol1" THEN r1
            ELSE IF v = "vol2" THEN r2
            ELSE row(TRUE, NULL)] :
         r1 \in {row(FALSE, NULL), row(TRUE, NULL), row(TRUE, 0)},
         r2 \in {row(FALSE, NULL), row(TRUE, NULL)} }

(***************************************************************************)
(* monitor_sizes_for                                                       *)
(***************************************************************************)
\* The Size rows there can be: provider and alias are fixed, whether the row
\* exists, whether its name contains 'Unknown Size' and its end_date vary.
SizeIds == {"s1", "s2", "s3", "s4"}
SizeProvider == ("s1" :> "p1" @@ "s2" :> "p1" @@ "s3" :> "p1" @@ "s4" :> "p2")
SizeAlias == ("s1" :> "1" @@ "s2" :> "2" @@ "s3" :> "N/A" @@ "s4" :> "1")
CloudAliases == {"1", "2"}

SizeOf(provider, alias) ==
    CHOOSE s \in SizeIds : SizeProvider[s] = provider /\ SizeAlias[s] = alias

\* convert_esh_size(cloud_size, provider_uuid) for every cloud size of the list:
\* the Size row of that provider and alias, created when there is none.
convert_esh_size(t, provider, aliases) ==
    [s \in SizeIds |->
        IF SizeProvider[s] = provider /\ SizeAlias[s] \in aliases /\ ~t[s].exists
        THEN [exists |-> TRUE, unknown |-> FALSE, end |-> NULL]
        ELSE t[s]]

\* Lines 796-803: the current sizes of the provider that list_sizes did not
\* report are end-dated now. db_sizes is evaluated after the conversions.
EndDateRevivesListedSizes(t, provider, seen, now_time) ==
    [s \in SizeIds |->
        IF t[s].exists /\ SizeProvider[s] = provider /\ SizeAlias[s] \in seen
        THEN [t[s] EXCEPT !.end = NULL]
        ELSE IF t[s].exists /\ SizeProvider[s] = provider /\ only_current(t[s].end, now_time)
        THEN [t[s] EXCEPT !.end = now_time]
        ELSE t[s]]
EndDateOtherSizes(t, provider, seen, now_time) ==
    [s \in SizeIds |->
        IF /\ t[s].exists /\ SizeProvider[s] = provider
           /\ only_current(t[s].end, now_time)
           /\ SizeAlias[s] \notin seen
        THEN [t[s] EXCEPT !.end = now_time]
        ELSE t[s]]

\* One iteration of the 'Unknown Size' loop (lines 809-824). local is the
\* function's variable libcloud_size ("unbound" before its first assignment),
\* outcome what admin_driver.get_size(size.alias, forced_lookup=True) does:
\* "found", "none" (returns None), "404" or "500" (BaseHTTPError with that code).
\* The except clause continues on 404 only and does not re-raise.
UnknownSizeStep(local, alias, outcome) ==
    IF alias = "N/A"
    THEN [did |-> "skipped", local |-> local, from |-> "nothing"]
    ELSE IF outcome = "404"
    THEN [did |-> "skipped", local |-> local, from |-> "nothing"]
    ELSE LET value == IF outcome = "found" THEN alias
                      ELSE IF outcome = "none" THEN "None"
                      ELSE local                    \* "500": not assigned
         IN IF value = "unbound"
            THEN [did |-> "raised", local |-> local, from |-> "nothing"]  \* UnboundLocalError
            ELSE IF value = "None"
            THEN [did |-> "skipped", local |-> value, from |-> "nothing"]
            ELSE [did |-> "converted", local |-> value, from |-> value]

LookupOutcomes == {"found", "none", "404", "500"}

\* monitor_sizes_for(provider_id) up to the 'Unknown Size' loop (lines 786-808)
SizesStart(provider, all_sizes) ==
    /\ sz.kind \in {"idle", "returned", "failed"}
    /\ sz.passes < MaxPasses
    /\ LET converted == convert_esh_size(sz.db, provider, all_sizes)
           t == EndDateOtherSizes(converted, provider, all_sizes, clock)
           unknown_sizes == {s \in SizeIds : t[s].exists /\ SizeProvider[s] = provider
                                               /\ t[s].unknown}
       IN \E queue \in Orderings(unknown_sizes) :
            sz' = [kind |-> "loop", provider |-> provider, seen |-> all_sizes,
                   now |-> clock, db |-> t, before |-> sz.db, queue |-> queue,
                   libcloud_size |-> "unbound", log |-> << >>,
                   passes |-> sz.passes + 1]
    /\ clock' = clock + 1
    /\ UNCHANGED <<topo, db, pc, args, pre, run, histVars, activeVars, callVars, allocVars, extVars,
                   vol, top, share>>

\* One iteration of the loop of lines 809-824
SizesLookup(outcome) ==
    /\ sz.kind = "loop"
    /\ sz.queue # << >>
    /\ LET size == Head(sz.queue)
           r == UnknownSizeStep(sz.libcloud_size, SizeAlias[size], outcome)
           entry == [size |-> size, outcome |-> outcome, did |-> r.did, from |-> r.from]
       IN sz' = [sz EXCEPT
                   !.kind = IF r.did = "raised" THEN "failed" ELSE @,
                   !.queue = IF r.did = "raised" THEN << >> ELSE Tail(@),
                   !.libcloud_size = r.local,
                   !.db = IF r.did = "converted"
                          THEN convert_esh_size(@, sz.provider, {r.from}) ELSE @,
                   !.log = Append(@, entry)]
    /\ UNCHANGED <<pruneVars, histVars, activeVars, callVars, allocVars, extVars, vol, top, share>>

\* Lines 826-830
SizesReturn ==
    /\ sz.kind = "loop"
    /\ sz.queue = << >>
    /\ sz' = [sz EXCEPT !.kind = "returned"]
    /\ UNCHANGED <<pruneVars, histVars, activeVars, callVars, allocVars, extVars, vol, top, share>>

\* Size tables a provider has: s1 absent, known or unknown, current or not.
SizeTables ==
    LET row(e, u, d) == [exists |-> e, unknown |-> u, end |-> d]
    IN { [s \in SizeIds |->
            IF s = "s1" THEN r1
            ELSE IF s = "s2" THEN r2
            ELSE row(TRUE, TRUE, NULL)] :
         r1 \in {row(FALSE, FALSE, NULL), row(TRUE, FALSE, NULL),
                  row(TRUE, TRUE, NULL), row(TRUE, TRUE, 0)},
         r2 \in {row(TRUE, FALSE, NULL), row(TRUE, TRUE, NULL)} }

(***************************************************************************)
(* The top-level jobs                                                      *)
(***************************************************************************)
\* prune_machines, monitor_machines, monitor_resources, monitor_instances,
\* monitor_volumes, monitor_sizes: each enqueues the task of the same name
\* with "_for" appended.
Jobs == {"prune_machines", "monitor_machines", "monitor_resources",
         "monitor_instances", "monitor_volumes", "monitor_sizes"}
TaskFor(job) == job \o "_for"

\* Provider.get_active()
get_active(active) == {p \in Providers : active[p]}

\* X_for.apply_async(args=[p.id]): the task is put on the queue and the call
\* returns; a worker runs it later, whatever became of the tasks before it.
EnqueueStopsAfterFailure(enqueued, job, p) ==
    IF \E k \in 1..Len(enqueued) : enqueued[k].status = "failed"
    THEN enqueued
    ELSE Append(enqueued, [task |-> TaskFor(job), provider |-> p, status |-> "queued"])
apply_async(enqueued, job, p) ==
    Append(enqueued, [task |-> TaskFor(job), provider |-> p, status |-> "queued"])

\* The job starts: Provider.get_active() is queried (the database chooses the order)
TopStart(job) ==
    /\ top.kind = "idle"
    /\ \E todo \in Orderings(get_active(top.active)) :
          top' = [top EXCEPT !.kind = "loop", !.job = job, !.todo = todo]
    /\ UNCHANGED <<pruneVars, histVars, activeVars, callVars, allocVars, extVars, vol, sz, share>>

\* One iteration of `for p in Provider.get_active(): X_for.apply_async(args=[p.id])`
TopEnqueue ==
    /\ top.kind = "loop"
    /\ top.todo # << >>
    /\ top' = [top EXCEPT !.todo = Tail(@),
                          !.enqueued = apply_async(@, top.job, Head(top.todo))]
    /\ UNCHANGED <<pruneVars, histVars, activeVars, callVars, allocVars, extVars, vol, sz, share>>

\* The loop is over: the job returns. unfinished counts the tasks it enqueued
\* that no worker has finished yet.
TopReturn ==
    /\ top.kind = "loop"
    /\ top.todo = << >>
    /\ top' = [top EXCEPT !.kind = "returned",
                          !.unfinished = Len(top.enqueued) - Len(top.finished)]
    /\ UNCHANGED <<pruneVars, histVars, activeVars, callVars, allocVars, extVars, vol, sz, share>>

\* A worker takes an enqueued per-provider task and runs it to its end: it
\* returns or raises.
WorkerRun(k, raised) ==
    /\ top.kind \in {"loop", "returned"}
    /\ k \in 1..Len(top.enqueued)
    /\ top.enqueued[k].status = "queued"
    /\ top' = [top EXCEPT !.enqueued[k].status = IF raised THEN "failed" ELSE "succeeded",
                          !.finished = Append(@, k)]
    /\ UNCHANGED <<pruneVars, histVars, activeVars, callVars, allocVars, extVars, vol, sz, share>>

(***************************************************************************)
(* _share_image                                                            *)
(***************************************************************************)
Tenants == {"t1", "t2"}

\* What account_driver.image_manager.share_image(cloud_machine, tenant) does:
\* it shares, or raises GlanceConflict / GlanceForbidden with the message the
\* code looks for or with another one, or raises something else (a timeout, a
\* connection error, HTTPNotFound).
ShareOutcomes ==
    {"shared", "conflict_already_associated", "conflict_other",
     "forbidden_public_image", "forbidden_other", "other_exception"}

\* The try statement of lines 950-964: what becomes of the outcome of
\* share_image. GlanceConflict and GlanceForbidden are caught whatever their
\* message; only the 'Public images do not have members' branch logs a warning;
\* no other exception type has a handler.
ShareHandler(outcome) ==
    IF outcome = "shared"
    THEN [result |-> "returned", warned |-> FALSE]
    ELSE IF outcome \in {"conflict_already_associated", "conflict_other"}
    THEN [result |-> "returned", warned |-> FALSE]
    ELSE IF outcome = "forbidden_public_image"
    THEN [result |-> "returned", warned |-> TRUE]
    ELSE IF outcome = "forbidden_other"
    THEN [result |-> "returned", warned |-> FALSE]
    ELSE [result |-> "escaped", warned |-> FALSE]

\* _share_image(account_driver, cloud_machine, identity, members, dry_run):
\* creds are the identity's ex_tenant_name credentials, cloud the image on the
\* cloud (visibility and members), update_fails whether glance.images.update
\* raises, outcome what share_image does. Answers the image on the cloud after
\* the call and how the call ended.
share_image_call(cloud, creds, members, dry_run, update_fails, outcome) ==
    LET missing_tenant == creds \ members
        base == [cloud |-> cloud, result |-> "returned", warned |-> FALSE,
                 raised |-> "none", called |-> FALSE]
    IN IF missing_tenant = {} THEN base
       ELSE IF Cardinality(missing_tenant) > 1
       THEN [base EXCEPT !.result = "escaped", !.raised = "safety_check"]
       ELSE IF dry_run THEN base
       ELSE IF cloud.public /\ update_fails
       THEN [base EXCEPT !.result = "escaped", !.raised = "update_exception"]
       ELSE LET tenant_name == CHOOSE t \in missing_tenant : TRUE
                h == ShareHandler(outcome)
            IN [cloud |-> [public |-> FALSE,
                           members |-> IF outcome = "shared"
                                       THEN cloud.members \cup {tenant_name}
                                       ELSE cloud.members],
                result |-> h.result, warned |-> h.warned,
                raised |-> IF outcome = "shared" THEN "none" ELSE outcome,
                called |-> TRUE]

\* A batch: the caller shares one image with one identity after the other; an
\* exception that leaves _share_image ends the caller's loop.
ShareImage(dry_run, update_fails, outcome) ==
    /\ share.kind = "batch"
    /\ share.todo # << >>
    /\ LET r == share_image_call(share.cloud, Head(share.todo), share.members,
                                 dry_run, update_fails, outcome)
       IN /\ \* inputs the call does not consume are left at their first value
             /\ (~r.called) => outcome = "shared"
             /\ (~share.cloud.public \/ dry_run \/ r.raised \in {"safety_check"}
                   \/ Head(share.todo) \ share.members = {}) => ~update_fails
          /\ share' = [share EXCEPT
                         !.kind = IF r.result = "escaped" THEN "aborted" ELSE @,
                         !.todo = Tail(@),
                         !.cloud = r.cloud,
                         !.log = Append(@, [creds |-> Head(share.todo), dry_run |-> dry_run,
                                            raised |-> r.raised, result |-> r.result,
                                            warned |-> r.warned])]
    /\ UNCHANGED <<pruneVars, histVars, activeVars, callVars, allocVars, extVars, vol, sz, top>>

\* The batch is over
ShareDone ==
    /\ share.kind = "batch"
    /\ share.todo = << >>
    /\ share' = [share EXCEPT !.kind = "done"]
    /\ UNCHANGED <<pruneVars, histVars, activeVars, callVars, allocVars, extVars, vol, sz, top>>

(***************************************************************************)
(* update_image_membership as a single call                                *)
(***************************************************************************)
\* update_image_membership(account_driver, cloud_machine, db_machine) called on
\* the image `id` of provider p1 and the machine recorded for it.
UpdateImageMembership(id, visibility, owner, members, pattern) ==
    /\ uim.kind = "idle"
    /\ \E m \in MachineFor("p1", id) :
          LET cm == [id |-> id, visibility |-> visibility, application_owner |-> owner,
                     members |-> members, pattern |-> pattern]
          IN /\ db' = update_image_membership(db, cm, m)
             /\ uim' = [kind |-> "called", cm |-> cm, m |-> m, before |-> db]
    /\ UNCHANGED <<topo, clock, pc, args, pre, run>>
    /\ UNCHANGED <<auth, par, mon, histVars, activeVars, allocVars, extVars, jobVars>>

(***************************************************************************)
(* XsedeProjectRequired.validate_user                                      *)
(***************************************************************************)
Accounts == {"u1", "u2"}

\* The UserAllocationSource table: a row per (user, allocation source), which
\* is absent, current, or no longer current.
UasKeys == Accounts \X {1, 2}
UasTables == [UasKeys -> {"absent", "current", "expired"}]

\* What fill_user_allocation_source_for(driver, user) does: it returns a list
\* of project allocations, or raises.
RemoteAnswers ==
    {"returned", "NoTaccUserForXsedeException", "NoAccountForUsernameException",
     "TASAPIException", "Timeout", "ConnectionError"}

\* UserAllocationSource.objects.filter(only_current_user_allocations()
\* & Q(user=user)).count()
active_allocation_count(uas, user) ==
    Cardinality({k \in UasKeys : k[1] = user /\ uas[k] = "current"})

ValidateWithoutFallback(answer, project_allocations, uas, user) ==
    IF answer = "returned"
    THEN [raised |-> FALSE, value |-> project_allocations # 0]
    ELSE IF answer = "ConnectionError" THEN [raised |-> TRUE, value |-> FALSE]
    ELSE [raised |-> FALSE, value |-> FALSE]

\* validate_user(user): the value returned, or the exception let through.
\* project_allocations is the length of the list the remote call returned.
validate_user(answer, project_allocations, uas, user) ==
    IF answer = "returned"
    THEN [raised |-> FALSE, value |-> project_allocations # 0]
    ELSE IF answer \in {"NoTaccUserForXsedeException", "NoAccountForUsernameException"}
    THEN [raised |-> FALSE, value |-> FALSE]
    ELSE IF answer \in {"TASAPIException", "Timeout"}
    THEN [raised |-> FALSE, value |-> active_allocation_count(uas, user) > 0]
    ELSE [raised |-> TRUE, value |-> FALSE]

ValidateUser(user, answer, project_allocations) ==
    /\ answer # "returned" => project_allocations = 0
    /\ auth' = [auth EXCEPT !.kind = "called", !.user = user, !.answer = answer,
                            !.project_allocations = project_allocations,
                            !.result = validate_user(answer, project_allocations,
                                                     auth.uas, user)]
    /\ UNCHANGED <<uim, par, mon, histVars, activeVars, allocVars, pruneVars, extVars,
                   jobVars>>

(***************************************************************************)
(* monitor_instances_for                                                   *)
(***************************************************************************)
\* Tenant names, in their sorted order, and the instances of each tenant.
TenantNames == {1, 2, 3}
MonInstances == TenantNames \X {1, 2}

\* The instance records a pass may find: the first instance of every tenant
\* is on record, current or end-dated; the second is not on record.
InstanceTables ==
    {d \in [MonInstances -> {"absent", "current", "ended"}] :
        \A i \in MonInstances : (d[i] = "absent") <=> (i[2] = 2)}

\* What _get_instance_owner_map returns: the running instances by tenant name.
InstanceMaps ==
    UNION {[keys -> {0, 1, 2}] : keys \in {{1, 2, 3}, {1, 3}}}
RunningOf(instance_map, t) == {i \in MonInstances : i[1] = t /\ i[2] <= instance_map[t]}

\* convert_esh_instance for the running instances S: an instance that is not
\* on record yet gets a record.
convert_esh_instance(d, S) ==
    [i \in MonInstances |-> IF i \in S /\ d[i] = "absent" THEN "current" ELSE d[i]]

\* _cleanup_missing_instances(identity, core_running_instances): the current
\* instances of the identity that are not running are end-dated. No instance
\* belongs to a missing identity (tenant 0).
cleanup_missing_instances(d, tenant, core_running_instances) ==
    [i \in MonInstances |->
        IF i[1] = tenant /\ d[i] = "current" /\ i \notin core_running_instances
        THEN "ended" ELSE d[i]]

\* lines 668-672: the exception is logged and the loop goes on with the next
\* tenant.
AbortAfterFailure(queue) == << >>
AfterConvertFailure(queue) == Tail(queue)

\* lines 639-653: a provider that is not openstack is left alone.
MonStart(openstack, instance_map) ==
    /\ mon.kind = "idle"
    /\ ~openstack => instance_map = [t \in {1, 3} |-> 0]
    /\ mon' = [mon EXCEPT !.kind = IF openstack THEN "loop" ELSE "returned",
                          !.openstack = openstack,
                          !.instance_map = instance_map,
                          !.queue = IF openstack THEN order_by(DOMAIN instance_map)
                                    ELSE << >>]
    /\ UNCHANGED <<uim, auth, par, histVars, activeVars, allocVars, pruneVars, extVars,
                   jobVars>>

\* One iteration of the loop of lines 654-676. has_identity: the tenant name
\* has an identity; raised: get_cached_driver or a convert_esh_instance raised,
\* after the instances of `converted` were converted.
MonTenant(has_identity, raised, converted) ==
    /\ mon.kind = "loop" /\ mon.queue # << >>
    /\ LET tenant_name == Head(mon.queue)
           running_instances == RunningOf(mon.instance_map, tenant_name)
           in_try == has_identity /\ running_instances # {}
           core_running_instances == IF in_try THEN running_instances ELSE {}
       IN /\ ~in_try => (~raised /\ converted = {})
          /\ (in_try /\ raised) => (converted \subseteq running_instances
                                     /\ converted # running_instances)
          /\ (in_try /\ ~raised) => converted = running_instances
          /\ mon' = [mon EXCEPT
                !.queue = IF raised THEN AfterConvertFailure(mon.queue)
                          ELSE Tail(mon.queue),
                !.visited = Append(mon.visited, tenant_name),
                !.failed = IF raised THEN mon.failed \cup {tenant_name} ELSE mon.failed,
                !.identified = IF has_identity THEN mon.identified \cup {tenant_name}
                               ELSE mon.identified,
                !.db = IF raised THEN convert_esh_instance(mon.db, converted)
                       ELSE cleanup_missing_instances(
                                convert_esh_instance(mon.db, converted),
                                IF has_identity THEN tenant_name ELSE 0,
                                core_running_instances)]
    /\ UNCHANGED <<uim, auth, par, histVars, activeVars, allocVars, pruneVars, extVars,
                   jobVars>>

\* lines 677-681
MonReturn ==
    /\ mon.kind = "loop" /\ mon.queue = << >>
    /\ mon' = [mon EXCEPT !.kind = "returned"]
    /\ UNCHANGED <<uim, auth, par, histVars, activeVars, allocVars, pruneVars, extVars,
                   jobVars>>

(***************************************************************************)
(* Two prune_machines_for passes, for two providers, at the same time      *)
(***************************************************************************)
\* Two workers, each running prune_machines_for for its own provider. Every
\* ORM statement (a save, a count, the evaluation of a queryset) is a step of
\* its own and reads what the other worker has saved.
Procs == {1, 2}
ProcProvider(i) == IF i = 1 THEN "p1" ELSE "p2"

\* a1 > v1 > {m1 on p1, m2 on p2};  a2 > {v2 > {m3 on p1}, v3};  a3 has no version
SharedWorld ==
    [verOf |-> ("m1" :> "v1" @@ "m2" :> "v1" @@ "m3" :> "v2"),
     appOf |-> ("v1" :> "a1" @@ "v2" :> "a2" @@ "v3" :> "a2"),
     provOf |-> ("m1" :> "p1" @@ "m2" :> "p2" @@ "m3" :> "p1"),
     identOf |-> ("m1" :> "img1" @@ "m2" :> "img2" @@ "m3" :> "img3"),
     active |-> ("p1" :> TRUE @@ "p2" :> TRUE)]

\* lines 110-141: now is read, the cloud is listed; the snapshot is not empty.
\* tick: whether the clock has moved on when the next worker reads it.
ParStart(i, cloud, tick) ==
    /\ par[i].pc = "idle"
    /\ cloud # {}
    /\ par' = [par EXCEPT ![i] = [pc |-> "orphans", now |-> clock, cloud |-> cloud,
                                  queue |-> << >>, machine |-> "m1"]]
    /\ clock' = clock + tick
    /\ UNCHANGED db
    /\ UNCHANGED <<topo, pc, args, pre, run>>
    /\ UNCHANGED <<uim, auth, mon, histVars, activeVars, allocVars, extVars, jobVars>>

\* line 863: the queryset db_machines is evaluated.
ParEvaluate(i) ==
    /\ par[i].pc = "orphans"
    /\ \E db_machines \in Orderings(CurrentMachines(db, ProcProvider(i), par[i].now)) :
          par' = [par EXCEPT ![i].pc = "loop", ![i].queue = db_machines]
    /\ UNCHANGED <<db, clock>>
    /\ UNCHANGED <<topo, pc, args, pre, run>>
    /\ UNCHANGED <<uim, auth, mon, histVars, activeVars, allocVars, extVars, jobVars>>

\* lines 863-868 and 400-404: the next machine is matched against the cloud, or
\* its end date is saved.
ParLoop(i) ==
    /\ par[i].pc = "loop"
    /\ IF par[i].queue = << >>
       THEN /\ par' = [par EXCEPT ![i].pc = "versions"]
            /\ UNCHANGED db
       ELSE LET machine == Head(par[i].queue)
            IN IF topo.identOf[machine] \in par[i].cloud
               THEN /\ par' = [par EXCEPT ![i].queue = Tail(par[i].queue)]
                    /\ UNCHANGED db
               ELSE /\ db' = [db EXCEPT !.mEnd[machine] = par[i].now]
                    /\ par' = [par EXCEPT ![i].pc = "check_version",
                                          ![i].machine = machine,
                                          ![i].queue = Tail(par[i].queue)]
    /\ UNCHANGED clock
    /\ UNCHANGED <<topo, pc, args, pre, run>>
    /\ UNCHANGED <<uim, auth, mon, histVars, activeVars, allocVars, extVars, jobVars>>

\* lines 406-414: the count of the version's current machines.
ParCheckVersion(i) ==
    /\ par[i].pc = "check_version"
    /\ par' = [par EXCEPT ![i].pc =
          IF \E x \in MachinesOf(topo.verOf[par[i].machine]) :
                machine_is_current(db.mEnd[x], par[i].now)
          THEN "loop" ELSE "save_version"]
    /\ UNCHANGED <<db, clock>>
    /\ UNCHANGED <<topo, pc, args, pre, run>>
    /\ UNCHANGED <<uim, auth, mon, histVars, activeVars, allocVars, extVars, jobVars>>

\* lines 415-419
ParSaveVersion(i) ==
    /\ par[i].pc = "save_version"
    /\ db' = [db EXCEPT !.vEnd[topo.verOf[par[i].machine]] = par[i].now]
    /\ par' = [par EXCEPT ![i].pc = "check_app"]
    /\ UNCHANGED clock
    /\ UNCHANGED <<topo, pc, args, pre, run>>
    /\ UNCHANGED <<uim, auth, mon, histVars, activeVars, allocVars, extVars, jobVars>>

\* lines 421-426: the count of the application's current versions.
ParCheckApp(i) ==
    /\ par[i].pc = "check_app"
    /\ par' = [par EXCEPT ![i].pc =
          IF \E x \in VersionsOf(AppOfMachine(par[i].machine)) :
                only_current(db.vEnd[x], par[i].now)
          THEN "loop" ELSE "save_app"]
    /\ UNCHANGED <<db, clock>>
    /\ UNCHANGED <<topo, pc, args, pre, run>>
    /\ UNCHANGED <<uim, auth, mon, histVars, activeVars, allocVars, extVars, jobVars>>

\* lines 427-430
ParSaveApp(i) ==
    /\ par[i].pc = "save_app"
    /\ db' = [db EXCEPT !.aEnd[AppOfMachine(par[i].machine)] = par[i].now]
    /\ par' = [par EXCEPT ![i].pc = "loop"]
    /\ UNCHANGED clock
    /\ UNCHANGED <<topo, pc, args, pre, run>>
    /\ UNCHANGED <<uim, auth, mon, histVars, activeVars, allocVars, extVars, jobVars>>

\* lines 152-163: the two sweeps, the repair and the membership cleanup.
ParSweepVersions(i) ==
    /\ par[i].pc = "versions"
    /\ db' = remove_versions_without_machines(db, par[i].now)
    /\ par' = [par EXCEPT ![i].pc = "apps"]
    /\ UNCHANGED clock
    /\ UNCHANGED <<topo, pc, args, pre, run>>
    /\ UNCHANGED <<uim, auth, mon, histVars, activeVars, allocVars, extVars, jobVars>>

ParSweepApps(i) ==
    /\ par[i].pc = "apps"
    /\ db' = remove_applications_without_versions(db, par[i].now)
    /\ par' = [par EXCEPT ![i].pc = "repair"]
    /\ UNCHANGED clock
    /\ UNCHANGED <<topo, pc, args, pre, run>>
    /\ UNCHANGED <<uim, auth, mon, histVars, activeVars, allocVars, extVars, jobVars>>

ParRepair(i) ==
    /\ par[i].pc = "repair"
    /\ db' = update_improperly_enddated_applications(db, par[i].now)
    /\ par' = [par EXCEPT ![i].pc = "clean"]
    /\ UNCHANGED clock
    /\ UNCHANGED <<topo, pc, args, pre, run>>
    /\ UNCHANGED <<uim, auth, mon, histVars, activeVars, allocVars, extVars, jobVars>>

ParClean(i) ==
    /\ par[i].pc = "clean"
    /\ \E db_machines \in Orderings(CurrentMachines(db, ProcProvider(i), par[i].now)) :
          db' = clean_memberships(db, db_machines)
    /\ par' = [par EXCEPT ![i].pc = "done"]
    /\ UNCHANGED clock
    /\ UNCHANGED <<topo, pc, args, pre, run>>
    /\ UNCHANGED <<uim, auth, mon, histVars, activeVars, allocVars, extVars, jobVars>>

(***************************************************************************)
(* Two transaction() calls for one instance, at the same time              *)
(***************************************************************************)
\* Two callers of InstanceStatusHistory.transaction for instance i1. `rows` is
\* the committed table; a caller's writes are seen by the other once its
\* atomic block is left. The code takes no lock of its own (no
\* select_for_update): the only lock is the row lock of the UPDATE.
Finals == {"committed", "ValueError", "DatabaseError"}

\* Another caller holds the row lock of `id`: it has updated the row and has
\* not left its atomic block.
LockedByOther(i, id) ==
    \E j \in Procs \ {i} : par[j].pc = "closed" /\ par[j].last = id

\* lines 129-143: the atomic block is entered and the row to close is found,
\* by the lookup or from the argument; the guard may raise ValueError.
TxRead(i, p, start_time, lh) ==
    /\ par[i].pc = "idle"
    /\ lh # NULL => (lh \in RowsOf(rows, "i1") /\ rows[lh].end_date = NULL)
    /\ \E last \in (IF lh # NULL THEN {lh}
                    ELSE IF get_last_history(rows, "i1") = {} THEN {NULL}
                    ELSE get_last_history(rows, "i1")) :
          LET guard == IF lh # NULL THEN "ok" ELSE LookupGuard(rows, last)
          IN par' = [par EXCEPT ![i] = [pc |-> IF guard = "ok" THEN "read" ELSE "ValueError",
                                        last |-> last, payload |-> p,
                                        start_time |-> start_time]]
    /\ UNCHANGED rows
    /\ UNCHANGED <<instEnd, txnCount, lastCall>>
    /\ UNCHANGED <<uim, auth, mon, activeVars, allocVars, pruneVars, extVars, jobVars>>

\* lines 144-145: the UPDATE of last_history.save(). It waits while another
\* caller holds the row lock. When the row was written by the other caller
\* since it was read, the database either lets the UPDATE through or raises
\* DatabaseError, which leaves the block and is logged (lines 164-168).
TxClose(i, raises) ==
    /\ par[i].pc = "read"
    /\ ~LockedByOther(i, par[i].last)
    /\ raises => rows[par[i].last].end_date # NULL
    /\ par' = [par EXCEPT ![i].pc = IF raises THEN "DatabaseError" ELSE "closed"]
    /\ UNCHANGED rows
    /\ UNCHANGED <<instEnd, txnCount, lastCall>>
    /\ UNCHANGED <<uim, auth, mon, activeVars, allocVars, pruneVars, extVars, jobVars>>

\* lines 146-163: the new row is created and saved and the block is left: the
\* two writes reach the table.
TxCommit(i) ==
    /\ par[i].pc = "closed"
    /\ rows' = TxnWrites(rows, par[i].last, "i1", par[i].payload, par[i].start_time,
                         par[i].start_time)
    /\ par' = [par EXCEPT ![i].pc = "committed"]
    /\ UNCHANGED <<instEnd, txnCount, lastCall>>
    /\ UNCHANGED <<uim, auth, mon, activeVars, allocVars, pruneVars, extVars, jobVars>>

(***************************************************************************)
(* The specifications                                                      *)
(***************************************************************************)
InitHist ==
    /\ uim = NoCall /\ auth = NoCall /\ par = NoCall /\ mon = NoCall
    /\ \E s1 \in ChainShapes : rows = InitialRows(s1) /\ instEnd = InitialInstEnd(s1)
    /\ txnCount = 0
    /\ lastCall = NoCall
    /\ atCall = NoCall
    /\ ENFORCING = FALSE /\ allocPc = "idle" /\ allocQueue = << >>
    /\ usernamesArg = {} /\ visitLog = << >> /\ dispatched = << >>
    /\ topo = FirstWorld /\ db = IdleDb /\ clock = 1 /\ pc = "idle"
    /\ args = NoArgs /\ pre = IdleDb /\ run = 0
    /\ mm = NoCall /\ enf = NoCall /\ nav = NoCall
    /\ vol = NoCall /\ sz = NoCall /\ top = NoCall /\ share = NoCall

NextHist ==
    \E inst \in Instances, p \in Payloads, t \in TimesOrNull \ {0},
       lh \in {NULL} \cup RowIds(rows), conflict \in BOOLEAN :
        \* the present is the latest time there is
        Transaction(inst, p, t, lh, conflict, MaxTime)

SpecHist == InitHist /\ [][NextHist]_vars

InitActive ==
    /\ uim = NoCall /\ auth = NoCall /\ par = NoCall /\ mon = NoCall
    /\ rows = << >> /\ instEnd = [i \in Instances |-> NULL]
    /\ txnCount = 0 /\ lastCall = NoCall
    /\ \E status \in StatusNames, start \in Times, end \in TimesOrNull,
          earliest \in TimesOrNull, latest \in TimesOrNull, nowT \in Times :
            \* an open row is read no earlier than it started
            /\ nowT >= start
            /\ atCall = [kind |-> "pending",
                         row |-> [status |-> status, start_date |-> start, end_date |-> end],
                         earliest_time |-> earliest, latest_time |-> latest, now |-> nowT]
    /\ ENFORCING = FALSE /\ allocPc = "idle" /\ allocQueue = << >>
    /\ usernamesArg = {} /\ visitLog = << >> /\ dispatched = << >>
    /\ topo = FirstWorld /\ db = IdleDb /\ clock = 1 /\ pc = "idle"
    /\ args = NoArgs /\ pre = IdleDb /\ run = 0
    /\ mm = NoCall /\ enf = NoCall /\ nav = NoCall
    /\ vol = NoCall /\ sz = NoCall /\ top = NoCall /\ share = NoCall

NextActive == GetActiveTime

SpecActive == InitActive /\ [][NextActive]_vars

InitAlloc ==
    /\ uim = NoCall /\ auth = NoCall /\ par = NoCall /\ mon = NoCall
    /\ rows = << >> /\ instEnd = [i \in Instances |-> NULL]
    /\ txnCount = 0 /\ lastCall = NoCall
    /\ atCall = NoCall
    /\ ENFORCING \in BOOLEAN
    /\ allocPc = "idle" /\ allocQueue = << >>
    /\ usernamesArg = {} /\ visitLog = << >> /\ dispatched = << >>
    /\ topo = FirstWorld /\ db = IdleDb /\ clock = 1 /\ pc = "idle"
    /\ args = NoArgs /\ pre = IdleDb /\ run = 0
    /\ mm = NoCall /\ enf = NoCall /\ nav = NoCall
    /\ vol = NoCall /\ sz = NoCall /\ top = NoCall /\ share = NoCall

NextAlloc ==
    \/ \E usernames \in {{}, {1}, {2, 3}} : MonitorStart(usernames)
    \/ \E over_allocation \in BOOLEAN, choice \in Overrides :
          MonitorVisit(over_allocation, choice)
    \/ MonitorReturn

SpecAlloc == InitAlloc /\ [][NextAlloc]_vars

InitPrune ==
    /\ uim = NoCall /\ auth = NoCall /\ par = NoCall /\ mon = NoCall
    /\ rows = << >> /\ instEnd = [i \in Instances |-> NULL]
    /\ txnCount = 0 /\ lastCall = NoCall
    /\ atCall = NoCall
    /\ ENFORCING = FALSE /\ allocPc = "idle" /\ allocQueue = << >>
    /\ usernamesArg = {} /\ visitLog = << >> /\ dispatched = << >>
    /\ \/ /\ topo \in Worlds
          /\ \E mEnd \in MachineEnds, vEnd \in VersionEnds, aEnd \in AppEnds :
                db = Database(mEnd, vEnd, aEnd, EmptyTables)
       \/ /\ topo = FirstWorld
          /\ \E t \in MemberTables :
                db = Database(AllNull(Machines), AllNull(Versions), AllNull(Apps), t)
    /\ clock = 1
    /\ pc = "idle"
    /\ args = NoArgs
    /\ pre = db
    /\ run = 0
    /\ mm = NoCall /\ enf = NoCall /\ nav = NoCall
    /\ vol = NoCall /\ sz = NoCall /\ top = NoCall /\ share = NoCall

NextPrune ==
    \/ \E provider \in Providers, cloud \in SUBSET Idents, invalid \in {{}, {"img1"}},
          validate \in BOOLEAN, dry_run \in BOOLEAN, forced_removal \in BOOLEAN :
            PruneStart(provider, cloud, invalid, validate, dry_run, forced_removal)
    \/ Rerun
    \/ EndDateMissing
    \/ RemoveVersions
    \/ RemoveApps
    \/ Repair
    \/ Clean

SpecPrune == InitPrune /\ [][NextPrune]_vars

InitMachines ==
    /\ uim = NoCall /\ auth = NoCall /\ par = NoCall /\ mon = NoCall
    /\ rows = << >> /\ instEnd = [i \in Instances |-> NULL]
    /\ txnCount = 0 /\ lastCall = NoCall
    /\ atCall = NoCall
    /\ ENFORCING \in BOOLEAN /\ allocPc = "idle" /\ allocQueue = << >>
    /\ usernamesArg = {} /\ visitLog = << >> /\ dispatched = << >>
    /\ \/ /\ topo \in Worlds
          /\ db = Database(AllNull(Machines), AllNull(Versions), AllNull(Apps), EmptyTables)
       \/ /\ topo = FirstWorld
          /\ \E t \in MemberTables :
                db = Database(AllNull(Machines), AllNull(Versions), AllNull(Apps), t)
    /\ clock = 1 /\ pc = "idle" /\ args = NoArgs /\ pre = db /\ run = 0
    /\ \E cloud \in CloudMemberTables :
          mm = [kind |-> "none", provider |-> "p1", validate |-> TRUE, queue |-> << >>,
                db_machines |-> << >>, before |-> db, passes |-> 0, cloud |-> cloud]
    /\ enf = NoCall /\ nav = NoCall
    /\ vol = NoCall /\ sz = NoCall /\ top = NoCall /\ share = NoCall

NextMachines ==
    \/ \E provider \in Providers, snapshot \in {{"img1", "img2"}, {"img2", "img3"}},
          limit_machines \in {{}, {"img1"}}, validate \in BOOLEAN, has_driver \in BOOLEAN :
            MachinesStart(provider, snapshot, limit_machines, validate, has_driver)
    \/ \E visibility \in {"private", "public"}, owner \in {NULL, 1, 0},
          pattern \in {{}, {Threshold + 2}}, valid \in BOOLEAN, timed_out \in {{}, {1}} :
            MachinesVisit(visibility, owner, pattern, valid, timed_out)
    \/ MachinesReturn

SpecMachines == InitMachines /\ [][NextMachines]_vars

InitEnforce ==
    /\ uim = NoCall /\ auth = NoCall /\ par = NoCall /\ mon = NoCall
    /\ rows = << >> /\ instEnd = [i \in Instances |-> NULL]
    /\ txnCount = 0 /\ lastCall = NoCall
    /\ atCall = NoCall
    /\ ENFORCING = FALSE /\ allocPc = "idle" /\ allocQueue = << >>
    /\ usernamesArg = {} /\ visitLog = << >> /\ dispatched = << >>
    /\ topo = FirstWorld /\ db = IdleDb /\ clock = 1 /\ pc = "idle"
    /\ args = NoArgs /\ pre = IdleDb /\ run = 0
    /\ mm = NoCall /\ enf = NoCall /\ nav = NoCall
    /\ vol = NoCall /\ sz = NoCall /\ top = NoCall /\ share = NoCall

NextEnforce ==
    \/ \E current_identities \in SUBSET Identities : EnforceStart(current_identities)
    \/ \E raised \in BOOLEAN, affected \in UNION {AffectedLists(i) : i \in Identities} :
          EnforceIdentity(raised, affected)
    \/ EnforceReturn

SpecEnforce == InitEnforce /\ [][NextEnforce]_vars

InitNav ==
    /\ uim = NoCall /\ auth = NoCall /\ par = NoCall /\ mon = NoCall
    /\ \E B \in SUBSET Times, open \in BOOLEAN, other \in {<<0, 1>>, <<1, NULL>>},
          d \in TimesOrNull, inst_end \in TimesOrNull :
          /\ B # {}
          /\ open \/ Cardinality(B) > 1
          /\ d = NULL \/ d \in B
          \* the instance is running, or ended with or after its last row
          /\ inst_end = NULL \/ \A u \in B : u <= inst_end
          /\ rows = ChainSeq("i1", WithRepeat(order_by(B), d), open)
                      \o << Row("i2", CHOOSE p \in Payloads : p.status = "active",
                                other[1], other[2]) >>
          /\ instEnd = [i \in Instances |-> IF i = "i1" THEN inst_end ELSE NULL]
          /\ \E id \in RowIds(rows) :
                LET first == IF rows[id].instance = "i1"
                             THEN CHOOSE t \in B : \A u \in B : t <= u
                             ELSE other[1]
                IN \/ nav = [kind |-> "pending", id |-> id,
                             \* the instance starts when its first row starts
                             inst_start |-> first]
                   \/ nav = [kind |-> "walking", id |-> id, from |-> id,
                             inst_start |-> first, visited |-> <<id>>,
                             result |-> [kind |-> "none", value |-> NULL]]
    /\ txnCount = 0 /\ lastCall = NoCall
    /\ atCall = NoCall
    /\ ENFORCING = FALSE /\ allocPc = "idle" /\ allocQueue = << >>
    /\ usernamesArg = {} /\ visitLog = << >> /\ dispatched = << >>
    /\ topo = FirstWorld /\ db = IdleDb /\ clock = 1 /\ pc = "idle"
    /\ args = NoArgs /\ pre = IdleDb /\ run = 0
    /\ mm = NoCall /\ enf = NoCall
    /\ vol = NoCall /\ sz = NoCall /\ top = NoCall /\ share = NoCall

NextNav ==
    \/ Previous
    \/ NextCall

SpecNav == InitNav /\ [][NextNav]_vars

InitSizes ==
    /\ uim = NoCall /\ auth = NoCall /\ par = NoCall /\ mon = NoCall
    /\ rows = << >> /\ instEnd = [i \in Instances |-> NULL]
    /\ txnCount = 0 /\ lastCall = NoCall
    /\ atCall = NoCall
    /\ ENFORCING = FALSE /\ allocPc = "idle" /\ allocQueue = << >>
    /\ usernamesArg = {} /\ visitLog = << >> /\ dispatched = << >>
    /\ topo = FirstWorld /\ db = IdleDb /\ clock = 1 /\ pc = "idle"
    /\ args = NoArgs /\ pre = IdleDb /\ run = 0
    /\ mm = NoCall /\ enf = NoCall /\ nav = NoCall
    /\ vol = NoCall /\ top = NoCall /\ share = NoCall
    /\ \E t \in SizeTables : sz = [kind |-> "idle", provider |-> "p1", seen |-> {}, now |-> 0,
                                db |-> t, before |-> t, queue |-> << >>,
                                libcloud_size |-> "unbound", log |-> << >>,
                                passes |-> 0]

NextSizes ==
    \/ \E provider \in Providers, all_sizes \in SUBSET CloudAliases :
          SizesStart(provider, all_sizes)
    \/ \E outcome \in LookupOutcomes : SizesLookup(outcome)
    \/ SizesReturn

SpecSizes == InitSizes /\ [][NextSizes]_vars

InitTop ==
    /\ uim = NoCall /\ auth = NoCall /\ par = NoCall /\ mon = NoCall
    /\ rows = << >> /\ instEnd = [i \in Instances |-> NULL]
    /\ txnCount = 0 /\ lastCall = NoCall
    /\ atCall = NoCall
    /\ ENFORCING = FALSE /\ allocPc = "idle" /\ allocQueue = << >>
    /\ usernamesArg = {} /\ visitLog = << >> /\ dispatched = << >>
    /\ topo = FirstWorld /\ db = IdleDb /\ clock = 1 /\ pc = "idle"
    /\ args = NoArgs /\ pre = IdleDb /\ run = 0
    /\ mm = NoCall /\ enf = NoCall /\ nav = NoCall
    /\ vol = NoCall /\ sz = NoCall /\ share = NoCall
    /\ \E active \in [Providers -> BOOLEAN] :
          top = [kind |-> "idle", active |-> active, job |-> "prune_machines",
                 todo |-> << >>, enqueued |-> << >>, finished |-> << >>,
                 unfinished |-> 0]

NextTop ==
    \/ \E job \in Jobs : TopStart(job)
    \/ TopEnqueue
    \/ TopReturn
    \/ \E k \in 1..Cardinality(Providers), raised \in BOOLEAN : WorkerRun(k, raised)

SpecTop == InitTop /\ [][NextTop]_vars

InitShare ==
    /\ uim = NoCall /\ auth = NoCall /\ par = NoCall /\ mon = NoCall
    /\ rows = << >> /\ instEnd = [i \in Instances |-> NULL]
    /\ txnCount = 0 /\ lastCall = NoCall
    /\ atCall = NoCall
    /\ ENFORCING = FALSE /\ allocPc = "idle" /\ allocQueue = << >>
    /\ usernamesArg = {} /\ visitLog = << >> /\ dispatched = << >>
    /\ topo = FirstWorld /\ db = IdleDb /\ clock = 1 /\ pc = "idle"
    /\ args = NoArgs /\ pre = IdleDb /\ run = 0
    /\ mm = NoCall /\ enf = NoCall /\ nav = NoCall
    /\ vol = NoCall /\ sz = NoCall /\ top = NoCall
    /\ \E members \in SUBSET Tenants, public \in BOOLEAN,
          first \in SUBSET Tenants, second \in SUBSET Tenants :
          share = [kind |-> "batch", members |-> members,
                   cloud |-> [public |-> public, members |-> members],
                   todo |-> <<first, second>>, log |-> << >>]

NextShare ==
    \/ \E dry_run \in BOOLEAN, update_fails \in BOOLEAN, outcome \in ShareOutcomes :
          ShareImage(dry_run, update_fails, outcome)
    \/ ShareDone

SpecShare == InitShare /\ [][NextShare]_vars

InitVolumes ==
    /\ uim = NoCall /\ auth = NoCall /\ par = NoCall /\ mon = NoCall
    /\ rows = << >> /\ instEnd = [i \in Instances |-> NULL]
    /\ txnCount = 0 /\ lastCall = NoCall
    /\ atCall = NoCall
    /\ ENFORCING = FALSE /\ allocPc = "idle" /\ allocQueue = << >>
    /\ usernamesArg = {} /\ visitLog = << >> /\ dispatched = << >>
    /\ topo = FirstWorld /\ db = IdleDb /\ clock = 1 /\ pc = "idle"
    /\ args = NoArgs /\ pre = IdleDb /\ run = 0
    /\ mm = NoCall /\ enf = NoCall /\ nav = NoCall
    /\ sz = NoCall /\ top = NoCall /\ share = NoCall
    /\ \E t \in VolumeTables :
          vol = [kind |-> "idle", provider |-> "p1", all_volumes |-> {},
                 identified |-> {}, seen_volumes |-> {}, now |-> 0,
                 before |-> t, db |-> t, passes |-> 0]

NextVolumes ==
    \E provider \in Providers, all_volumes \in SUBSET VolIds, identified \in SUBSET VolIds :
        VolumesPass(provider, all_volumes, identified)

SpecVolumes == InitVolumes /\ [][NextVolumes]_vars

\* Reconciliation passes one after the other on one database: a pass starts
\* when no other pass is under way.
MaxReconcile == 4  \* passes started per behaviour

NoPassRunning ==
    /\ pc \in {"idle", "done", "returned", "crashed"}
    /\ mm.kind \in {"none", "done"}
    /\ vol.kind \in {"idle", "returned"}
    /\ sz.kind \in {"idle", "returned", "failed"}

PassesStarted == run + mm.passes + vol.passes + sz.passes

MayStartPass == NoPassRunning /\ PassesStarted < MaxReconcile

InitReconcile ==
    /\ uim = NoCall /\ auth = NoCall /\ par = NoCall /\ mon = NoCall
    /\ rows = << >> /\ instEnd = [i \in Instances |-> NULL]
    /\ txnCount = 0 /\ lastCall = NoCall
    /\ atCall = NoCall
    /\ ENFORCING = FALSE /\ allocPc = "idle" /\ allocQueue = << >>
    /\ usernamesArg = {} /\ visitLog = << >> /\ dispatched = << >>
    /\ topo = FirstWorld
    \* machine m1, its version and its application were end-dated at time 0
    /\ db = Database([AllNull(Machines) EXCEPT !["m1"] = 0],
                     [AllNull(Versions) EXCEPT !["v1"] = 0],
                     [AllNull(Apps) EXCEPT !["a1"] = 0], EmptyTables)
    /\ clock = 1 /\ pc = "idle" /\ args = NoArgs /\ pre = db /\ run = 0
    /\ mm = [kind |-> "none", provider |-> "p1", validate |-> TRUE, queue |-> << >>,
             db_machines |-> << >>, before |-> db, passes |-> 0,
             cloud |-> [id \in Idents |-> {}]]
    /\ enf = NoCall /\ nav = NoCall
    \* volume vol1 and size s1 were end-dated at time 0
    /\ \E t \in VolumeTables :
          /\ t["vol1"].end # NULL /\ ~t["vol2"].exists
          /\ vol = [kind |-> "idle", provider |-> "p1", all_volumes |-> {},
                    identified |-> {}, seen_volumes |-> {}, now |-> 0,
                    before |-> t, db |-> t, passes |-> 0]
    /\ \E t \in SizeTables :
          /\ t["s1"].end # NULL /\ ~t["s2"].unknown
          /\ sz = [kind |-> "idle", provider |-> "p1", seen |-> {}, now |-> 0,
                   db |-> t, before |-> t, queue |-> << >>,
                   libcloud_size |-> "unbound", log |-> << >>, passes |-> 0]
    /\ top = NoCall /\ share = NoCall

NextReconcile ==
    \/ \E cloud \in {{"img1", "img2"}, {"img2"}} :
          MayStartPass /\ PruneStart("p1", cloud, {}, FALSE, FALSE, FALSE)
    \/ MayStartPass /\ Rerun
    \/ EndDateMissing
    \/ RemoveVersions
    \/ RemoveApps
    \/ Repair
    \/ Clean
    \/ MayStartPass /\ MachinesStart("p1", {"img1", "img2"}, {}, FALSE, TRUE)
    \/ MachinesVisit("private", NULL, {}, TRUE, {})
    \/ MachinesReturn
    \/ \E all_volumes \in {{"vol1", "vol2"}, {"vol3"}}, identified \in {{}, {"vol2"}} :
          MayStartPass /\ VolumesPass("p1", all_volumes, identified)
    \/ \E all_sizes \in {{"1"}, {"2"}} :
          MayStartPass /\ SizesStart("p1", all_sizes)
    \/ \E outcome \in {"found", "404"} : SizesLookup(outcome)
    \/ SizesReturn

SpecReconcile == InitReconcile /\ [][NextReconcile]_vars

InitMembership ==
    /\ auth = NoCall /\ par = NoCall /\ mon = NoCall
    /\ rows = << >> /\ instEnd = [i \in Instances |-> NULL]
    /\ txnCount = 0 /\ lastCall = NoCall
    /\ atCall = NoCall
    /\ ENFORCING = FALSE /\ allocPc = "idle" /\ allocQueue = << >>
    /\ usernamesArg = {} /\ visitLog = << >> /\ dispatched = << >>
    /\ topo = FirstWorld
    /\ \E t \in MemberTables \cup {EmptyTables} :
          db = Database(AllNull(Machines), AllNull(Versions), AllNull(Apps), t)
    /\ clock = 1 /\ pc = "idle" /\ args = NoArgs /\ pre = db /\ run = 0
    /\ mm = NoCall /\ enf = NoCall /\ nav = NoCall
    /\ vol = NoCall /\ sz = NoCall /\ top = NoCall /\ share = NoCall
    /\ uim = [kind |-> "idle",
              cm |-> [id |-> "img1", visibility |-> "public", application_owner |-> NULL,
                      members |-> {}, pattern |-> {}],
              m |-> "m1", before |-> db]

NextMembership ==
    \E id \in Idents, visibility \in {"private", "public"}, owner \in {NULL, 1, 0},
       members \in {{}, {1, 2, 0}, (1..(Threshold - 1)) \cup {0}, 1..(Threshold + 1)},
       pattern \in {{}, {Threshold + 2}} :
        UpdateImageMembership(id, visibility, owner, members, pattern)

SpecMembership == InitMembership /\ [][NextMembership]_vars

\* A prune pass and a monitor pass of provider p1, one after the other, with a
\* validator whose verdict is a property of the image: machine_is_valid
\* rejects the images of Rejected and accepts the others.
Rejected == {"img1"}
machine_is_valid(id) == id \notin Rejected

InitValidate ==
    /\ uim = NoCall /\ auth = NoCall /\ par = NoCall /\ mon = NoCall
    /\ rows = << >> /\ instEnd = [i \in Instances |-> NULL]
    /\ txnCount = 0 /\ lastCall = NoCall
    /\ atCall = NoCall
    /\ ENFORCING \in BOOLEAN /\ allocPc = "idle" /\ allocQueue = << >>
    /\ usernamesArg = {} /\ visitLog = << >> /\ dispatched = << >>
    /\ topo = FirstWorld
    /\ db = Database(AllNull(Machines), AllNull(Versions), AllNull(Apps), EmptyTables)
    /\ clock = 1 /\ pc = "idle" /\ args = NoArgs /\ pre = db /\ run = 0
    /\ \E cloud \in CloudMemberTables :
          mm = [kind |-> "none", provider |-> "p1", validate |-> TRUE, queue |-> << >>,
                db_machines |-> << >>, before |-> db, passes |-> 0, cloud |-> cloud]
    /\ enf = NoCall /\ nav = NoCall
    /\ vol = NoCall /\ sz = NoCall /\ top = NoCall /\ share = NoCall

NextValidate ==
    \/ \E cloud \in {{"img1", "img2"}, {"img1", "img2", "img3"}, {"img1"}},
          validate \in BOOLEAN, dry_run \in BOOLEAN :
            /\ mm.kind \in {"none", "done"}
            /\ PruneStart("p1", cloud, Rejected, validate, dry_run, FALSE)
    \/ mm.kind \in {"none", "done"} /\ Rerun
    \/ EndDateMissing
    \/ RemoveVersions
    \/ RemoveApps
    \/ Repair
    \/ Clean
    \/ \E validate \in BOOLEAN :
            /\ pc \in {"idle", "done", "returned", "crashed"}
            /\ MachinesStart("p1", {"img1", "img2"}, {}, validate, TRUE)
    \/ \E visibility \in {"private", "public"}, valid \in BOOLEAN :
            /\ mm.kind = "loop" /\ mm.queue # << >>
            /\ valid = machine_is_valid(Head(mm.queue))
            /\ MachinesVisit(visibility, NULL, {}, valid, {})
    \/ MachinesReturn

SpecValidate == InitValidate /\ [][NextValidate]_vars

InitAuth ==
    /\ uim = NoCall /\ par = NoCall /\ mon = NoCall
    /\ rows = << >> /\ instEnd = [i \in Instances |-> NULL]
    /\ txnCount = 0 /\ lastCall = NoCall
    /\ atCall = NoCall
    /\ ENFORCING = FALSE /\ allocPc = "idle" /\ allocQueue = << >>
    /\ usernamesArg = {} /\ visitLog = << >> /\ dispatched = << >>
    /\ topo = FirstWorld /\ db = IdleDb /\ clock = 1 /\ pc = "idle"
    /\ args = NoArgs /\ pre = IdleDb /\ run = 0
    /\ mm = NoCall /\ enf = NoCall /\ nav = NoCall
    /\ vol = NoCall /\ sz = NoCall /\ top = NoCall /\ share = NoCall
    /\ \E uas \in UasTables :
          auth = [kind |-> "idle", user |-> "u1", answer |-> "returned",
                  project_allocations |-> 0, uas |-> uas,
                  result |-> [raised |-> FALSE, value |-> FALSE]]

NextAuth ==
    \E user \in Accounts, answer \in RemoteAnswers, project_allocations \in 0..2 :
        ValidateUser(user, answer, project_allocations)

SpecAuth == InitAuth /\ [][NextAuth]_vars

InitInstances ==
    /\ uim = NoCall /\ auth = NoCall /\ par = NoCall
    /\ rows = << >> /\ instEnd = [i \in Instances |-> NULL]
    /\ txnCount = 0 /\ lastCall = NoCall
    /\ atCall = NoCall
    /\ ENFORCING \in BOOLEAN /\ allocPc = "idle" /\ allocQueue = << >>
    /\ usernamesArg = {} /\ visitLog = << >> /\ dispatched = << >>
    /\ topo = FirstWorld /\ db = IdleDb /\ clock = 1 /\ pc = "idle"
    /\ args = NoArgs /\ pre = IdleDb /\ run = 0
    /\ mm = NoCall /\ enf = NoCall /\ nav = NoCall
    /\ vol = NoCall /\ sz = NoCall /\ top = NoCall /\ share = NoCall
    /\ \E d \in InstanceTables :
          mon = [kind |-> "idle", openstack |-> TRUE, instance_map |-> [t \in {1, 3} |-> 0],
                 queue |-> << >>, visited |-> << >>, failed |-> {}, identified |-> {},
                 db |-> d, before |-> d]

NextInstances ==
    \/ \E openstack \in BOOLEAN, instance_map \in InstanceMaps :
          MonStart(openstack, instance_map)
    \/ \E has_identity \in BOOLEAN, raised \in BOOLEAN, converted \in SUBSET MonInstances :
          MonTenant(has_identity, raised, converted)
    \/ MonReturn

SpecInstances == InitInstances /\ [][NextInstances]_vars

InitConcurrent ==
    /\ uim = NoCall /\ auth = NoCall /\ mon = NoCall
    /\ rows = << >> /\ instEnd = [i \in Instances |-> NULL]
    /\ txnCount = 0 /\ lastCall = NoCall
    /\ atCall = NoCall
    /\ ENFORCING = FALSE /\ allocPc = "idle" /\ allocQueue = << >>
    /\ usernamesArg = {} /\ visitLog = << >> /\ dispatched = << >>
    /\ topo = SharedWorld
    /\ db = Database(AllNull(Machines), AllNull(Versions), AllNull(Apps), EmptyTables)
    /\ clock = 1 /\ pc = "idle" /\ args = NoArgs /\ pre = db /\ run = 0
    /\ mm = NoCall /\ enf = NoCall /\ nav = NoCall
    /\ vol = NoCall /\ sz = NoCall /\ top = NoCall /\ share = NoCall
    /\ par = [i \in Procs |-> [pc |-> "idle", now |-> 0, cloud |-> {}, queue |-> << >>,
                               machine |-> "m1"]]

NextConcurrent ==
    \/ \E i \in Procs, cloud \in {{"img3"}, Idents}, tick \in {0, 1} :
          ParStart(i, cloud, tick)
    \/ \E i \in Procs : ParEvaluate(i)
    \/ \E i \in Procs : ParLoop(i)
    \/ \E i \in Procs : ParCheckVersion(i)
    \/ \E i \in Procs : ParSaveVersion(i)
    \/ \E i \in Procs : ParCheckApp(i)
    \/ \E i \in Procs : ParSaveApp(i)
    \/ \E i \in Procs : ParSweepVersions(i)
    \/ \E i \in Procs : ParSweepApps(i)
    \/ \E i \in Procs : ParRepair(i)
    \/ \E i \in Procs : ParClean(i)

SpecConcurrent == InitConcurrent /\ [][NextConcurrent]_vars

InitInterleaved ==
    /\ uim = NoCall /\ auth = NoCall /\ mon = NoCall
    /\ \E s1 \in ChainShapes : rows = InitialRows(s1) /\ instEnd = InitialInstEnd(s1)
    /\ txnCount = 0 /\ lastCall = NoCall
    /\ atCall = NoCall
    /\ ENFORCING = FALSE /\ allocPc = "idle" /\ allocQueue = << >>
    /\ usernamesArg = {} /\ visitLog = << >> /\ dispatched = << >>
    /\ topo = FirstWorld /\ db = IdleDb /\ clock = 1 /\ pc = "idle"
    /\ args = NoArgs /\ pre = IdleDb /\ run = 0
    /\ mm = NoCall /\ enf = NoCall /\ nav = NoCall
    /\ vol = NoCall /\ sz = NoCall /\ top = NoCall /\ share = NoCall
    /\ par = [i \in Procs |-> [pc |-> "idle", last |-> NULL,
                               payload |-> CHOOSE q \in Payloads : q.status = "active",
                               start_time |-> 0]]

NextInterleaved ==
    \/ \E i \in Procs, p \in Payloads, start_time \in 1..MaxTime,
          lh \in {NULL} \cup RowIds(rows) :
            TxRead(i, p, start_time, lh)
    \/ \E i \in Procs, raises \in BOOLEAN : TxClose(i, raises)
    \/ \E i \in Procs : TxCommit(i)

SpecInterleaved == InitInterleaved /\ [][NextInterleaved]_vars

(***************************************************************************)
(* Properties of prune_machines_for (checked under SpecPrune)              *)
(***************************************************************************)
Finished == pc \in {"done", "returned", "crashed"}
PastLoop1 == pc \in {"versions", "apps", "repair", "clean", "done"}

\* The machines the running pass read from the database (current, on its
\* provider) and did not find in the validated cloud snapshot.
Orphaned ==
    {m \in Machines : /\ topo.provOf[m] = args.provider
                      /\ only_current(pre.mEnd[m], args.now)
                      /\ topo.identOf[m] \notin args.cloud_machines}
Matched ==
    {m \in Machines : /\ topo.provOf[m] = args.provider
                      /\ only_current(pre.mEnd[m], args.now)
                      /\ topo.identOf[m] \in args.cloud_machines}

NoCurrentMachine(d, v, t) == \A x \in MachinesOf(v) : ~only_current(d.mEnd[x], t)
NoCurrentVersion(d, a, t) == \A w \in VersionsOf(a) : ~only_current(d.vEnd[w], t)

\* In database d machine m is end-dated at t, and so is its version when no
\* machine of it is current, and so is the application when moreover no version
\* of it is current.
CascadedUp(d, m, t) ==
    /\ d.mEnd[m] = t
    /\ NoCurrentMachine(d, topo.verOf[m], t) => d.vEnd[topo.verOf[m]] = t
    /\ (NoCurrentMachine(d, topo.verOf[m], t) /\ NoCurrentVersion(d, AppOfMachine(m), t))
          => d.aEnd[AppOfMachine(m)] = t

SoleChain(m) ==
    /\ MachinesOf(topo.verOf[m]) = {m}
    /\ VersionsOf(AppOfMachine(m)) = {topo.verOf[m]}

\* C1: cascade upward. A remove_machine call with dry_run=False end-dates the
\* machine and, when its version is left with no current machine, the version
\* with the same timestamp, and, when the application is left with no current
\* version, the application too. After the first loop of a pass this holds of
\* every machine missing from the snapshot; an application with one version
\* with one machine is end-dated whole (machine, version, application).
C1_CascadeUpward ==
    /\ pc = "orphans" =>
          \A m \in CurrentMachines(db, args.provider, args.now) :
              CascadedUp(remove_machine(db, m, args.now, FALSE), m, args.now)
    /\ (pc = "versions" /\ ~args.dry_run) =>
          \A m \in Orphaned :
              /\ CascadedUp(db, m, args.now)
              /\ SoleChain(m) =>
                    /\ db.mEnd[m] = args.now
                    /\ db.vEnd[topo.verOf[m]] = args.now
                    /\ db.aEnd[AppOfMachine(m)] = args.now

\* A pass has just end-dated the only machine of the only version of an
\* application, and with it the version and the application.
C1_Witness ==
    /\ pc = "versions" /\ ~args.dry_run
    /\ \E m \in Orphaned :
          /\ SoleChain(m)
          /\ pre.mEnd[m] = NULL /\ pre.vEnd[topo.verOf[m]] = NULL
          /\ pre.aEnd[AppOfMachine(m)] = NULL
          /\ db.mEnd[m] = args.now /\ db.vEnd[topo.verOf[m]] = args.now
          /\ db.aEnd[AppOfMachine(m)] = args.now

\* From database d0 to d1 no version that still has a current machine, and no
\* application that still has a current version, changed its end date.
CascadeStopped(d0, d1, t) ==
    /\ \A v \in Versions :
          (\E x \in MachinesOf(v) : only_current(d1.mEnd[x], t)) => d1.vEnd[v] = d0.vEnd[v]
    /\ \A a \in Apps :
          (\E w \in VersionsOf(a) : only_current(d1.vEnd[w], t)) => d1.aEnd[a] = d0.aEnd[a]

\* C2: the cascade stops at the first level that still has a current child.
\* remove_machine (a single call, and the whole first loop) never end-dates a
\* version that still has a current machine nor an application that still has
\* a current version.
C2_CascadeStops ==
    /\ pc = "orphans" =>
          \A m \in CurrentMachines(db, args.provider, args.now), dry_run \in BOOLEAN :
              CascadeStopped(db, remove_machine(db, m, args.now, dry_run), args.now)
    /\ pc = "versions" => CascadeStopped(pre, db, args.now)

\* Version v2 holds machines m2 and m3 and the snapshot reports only m3: m2 is
\* end-dated, v2 and its application stay current.
C2_Witness ==
    /\ pc = "versions" /\ ~args.dry_run
    /\ MachinesOf("v2") = {"m2", "m3"}
    /\ pre.mEnd["m2"] = NULL /\ pre.mEnd["m3"] = NULL
    /\ "m2" \in Orphaned /\ "m3" \in Matched
    /\ db.mEnd["m2"] = args.now /\ db.mEnd["m3"] = NULL
    /\ db.vEnd["v2"] = NULL /\ db.aEnd[topo.appOf["v2"]] = NULL

\* What the first loop leaves behind when it writes: every machine missing from
\* the snapshot end-dated at the pass's now, every machine the snapshot holds as
\* it was, current.
DiffApplied ==
    /\ \A m \in Orphaned : db.mEnd[m] = args.now
    /\ \A m \in Matched : db.mEnd[m] = pre.mEnd[m] /\ only_current(db.mEnd[m], args.now)

\* C3 (amended): in a pass with dry_run=False of an active provider whose
\* validated snapshot is not empty, a machine of the provider that was current
\* when the pass started is end-dated at the pass's now if and only if its
\* identifier is missing from the snapshot; a machine whose identifier the
\* snapshot holds is left current. With dry_run=True no machine is end-dated.
C3_OrphansEndDated ==
    /\ (PastLoop1 /\ ~args.dry_run /\ args.cloud_machines # {}) => DiffApplied
    /\ (PastLoop1 /\ args.dry_run) => db.mEnd = pre.mEnd

\* C3 (as stated): in any pass of an active provider with a non-empty snapshot,
\* dry_run or not, a current machine of the provider is end-dated at the pass's
\* now if and only if its identifier is missing from the snapshot.
C3_AnyPassEndDates ==
    (PastLoop1 /\ args.cloud_machines # {}) => DiffApplied

\* A finished pass that end-dated one machine and kept another.
C3_Witness ==
    /\ pc = "done" /\ ~args.dry_run /\ args.cloud_machines # {}
    /\ \E m \in Orphaned : pre.mEnd[m] = NULL /\ db.mEnd[m] = args.now
    /\ \E m \in Matched : db.mEnd[m] = NULL

\* C4: idempotence. When the pass is run a second time against the same cloud
\* snapshot, the second run changes nothing: no end date and no membership.
C4_SecondRunChangesNothing ==
    (run >= 2 /\ Finished) => db = pre

(***************************************************************************)
(* Properties of monitor_allocation_sources (checked under SpecAlloc)      *)
(***************************************************************************)
\* The claim's matrix: enforce with ALWAYS_ENFORCE, or over allocation with
\* NO_OVERRIDE.
ShouldDispatch(e) ==
    \/ e.choice = "ALWAYS_ENFORCE"
    \/ e.over_allocation /\ e.choice = "NO_OVERRIDE"

WasEvaluated(e) == e.action # "filtered"
MatrixSaysDispatch(e) == WasEvaluated(e) /\ ShouldDispatch(e)

PairsDispatchedByMatrix ==
    LET chosen == SelectSeq(visitLog, MatrixSaysDispatch)
    IN [i \in 1..Len(chosen) |-> <<chosen[i].source, chosen[i].user>>]

\* C5: the override matrix. For every (allocation_source, user) pair the loop
\* evaluated, an enforcement task was dispatched exactly when the override is
\* ALWAYS_ENFORCE, or the user is over allocation and the override is
\* NO_OVERRIDE; the tasks dispatched are those pairs, in loop order.
C5_OverrideMatrix ==
    /\ allocPc # "crashed"
    /\ \A i \in 1..Len(visitLog) :
          WasEvaluated(visitLog[i]) =>
              (visitLog[i].action = "enforce" <=> ShouldDispatch(visitLog[i]))
    /\ dispatched = PairsDispatchedByMatrix

\* A finished run that skipped an over-allocation user under NEVER_ENFORCE and
\* enforced on a user under ALWAYS_ENFORCE who was not over allocation.
C5_Witness ==
    /\ allocPc = "done"
    /\ \E i \in 1..Len(visitLog) :
          /\ visitLog[i].over_allocation /\ visitLog[i].choice = "NEVER_ENFORCE"
          /\ \A k \in 1..Len(dispatched) :
                dispatched[k] # <<visitLog[i].source, visitLog[i].user>>
    /\ \E i \in 1..Len(visitLog) :
          /\ ~visitLog[i].over_allocation /\ visitLog[i].choice = "ALWAYS_ENFORCE"
          /\ \E k \in 1..Len(dispatched) :
                dispatched[k] = <<visitLog[i].source, visitLog[i].user>>

(***************************************************************************)
(* Properties of InstanceStatusHistory.transaction (checked under SpecHist)*)
(***************************************************************************)
\* The history rows of an instance ordered by start_date (ties by id).
RECURSIVE ByStartDate(_, _)
ByStartDate(rs, ids) ==
    IF ids = {} THEN << >>
    ELSE LET first == CHOOSE i \in ids : \A j \in ids :
                          \/ rs[i].start_date < rs[j].start_date
                          \/ rs[i].start_date = rs[j].start_date /\ i <= j
         IN <<first>> \o ByStartDate(rs, ids \ {first})

Contiguous(rs, inst, ended) ==
    LET chain == ByStartDate(rs, RowsOf(rs, inst))
    IN /\ \A k \in 1..(Len(chain) - 1) :
             rs[chain[k]].end_date = rs[chain[k + 1]].start_date
       /\ Len(chain) > 0 =>
             \/ rs[chain[Len(chain)]].end_date = NULL
             \/ rs[chain[Len(chain)]].end_date = ended

\* C6: history chain contiguity. After any sequence of transaction calls, for
\* every instance and all consecutive history rows ordered by start_date, the
\* end_date of row i equals the start_date of row i+1, and the last row is open
\* or ends when the instance ends.
C6_ChainContiguous ==
    \A inst \in Instances : Contiguous(rows, inst, instEnd[inst])

CallMade == lastCall.kind # "none"
CallSucceeded == lastCall.kind = "ok"

\* C7: a successful transaction(status_name, activity, instance, size, extra,
\* start_time), no last_history supplied, sets end_date = start_time on the
\* instance's currently open row (its newest row, open before the call),
\* appends exactly one row with the given status/activity/size/extra,
\* start_date = start_time and no end_date, changes no other row, and returns
\* the new row. The two writes are atomic: a call that does not succeed leaves
\* the table as it was.
C7_TransactionWrites ==
    /\ (CallSucceeded /\ lastCall.last_history = NULL /\ lastCall.start_time # NULL) =>
          LET before == lastCall.before
              closed == lastCall.closed
              p == lastCall.payload
          IN /\ closed \in get_last_history(before, lastCall.instance)
             /\ before[closed].end_date = NULL
             /\ Len(rows) = Len(before) + 1
             /\ rows[closed] = [before[closed] EXCEPT !.end_date = lastCall.start_time]
             /\ \A i \in RowIds(before) \ {closed} : rows[i] = before[i]
             /\ rows[Len(rows)] = Row(lastCall.instance, p, lastCall.start_time, NULL)
             /\ lastCall.returned = Len(rows)
    /\ (CallMade /\ ~CallSucceeded) => rows = lastCall.before

\* A call succeeded on an instance whose newest row was open: the row is now
\* closed at start_time and a new open row follows it.
C7_Witness ==
    /\ CallSucceeded /\ lastCall.last_history = NULL /\ lastCall.start_time # NULL
    /\ lastCall.before[lastCall.closed].end_date = NULL
    /\ rows[lastCall.closed].end_date = lastCall.start_time
    /\ Len(rows) = Len(lastCall.before) + 1
    /\ rows[Len(rows)].end_date = NULL

\* The instance of the last call has no history row, or the newest row the
\* lookup returned is already end-dated.
NothingToClose ==
    \/ RowsOf(lastCall.before, lastCall.instance) = {}
    \/ /\ lastCall.closed # NULL
       /\ lastCall.before[lastCall.closed].end_date # NULL

\* C8: a transaction call without last_history on an instance that has no
\* history row, or whose last history row already has an end_date, raises an
\* error that reaches the caller (ValueError, not the swallowed DatabaseError)
\* and writes nothing: no row is modified, none is created.
C8_NoOpenRowFails ==
    (CallMade /\ lastCall.last_history = NULL /\ NothingToClose) =>
        /\ lastCall.kind = "ValueError"
        /\ rows = lastCall.before

\* Both failing cases: an instance without rows, reached only in a ledger where
\* i1 has none, and an instance whose last row is closed.
C8_Witness ==
    /\ lastCall.kind = "ValueError" /\ lastCall.last_history = NULL
    /\ rows = lastCall.before
    /\ \/ RowsOf(lastCall.before, lastCall.instance) = {}
       \/ /\ lastCall.closed # NULL
          /\ lastCall.before[lastCall.closed].end_date # NULL

\* C9: a transaction call with an explicitly supplied last_history that is
\* already closed fails without writes: the supplied row keeps its end_date and
\* no history row is created.
C9_SuppliedClosedRowFails ==
    (CallMade /\ lastCall.last_history # NULL
        /\ lastCall.before[lastCall.last_history].end_date # NULL) =>
        /\ ~CallSucceeded
        /\ rows = lastCall.before

(***************************************************************************)
(* Properties of get_active_time (checked under SpecActive)                *)
(***************************************************************************)
\* C10: get_active_time returns zero duration for every row whose status name
\* is neither 'active' nor 'running', whatever earliest_time and latest_time
\* are, and zero duration for a row whose start_date is after latest_time.
C10_ZeroActiveTime ==
    atCall.kind = "called" =>
        /\ atCall.row.status \notin {"active", "running"} => atCall.result.duration = 0
        /\ (atCall.latest_time # NULL /\ atCall.row.start_date > atCall.latest_time)
              => atCall.result.duration = 0

\* A suspended row lying inside the window, which would count were it active,
\* and an active row that starts after the window.
C10_Witness ==
    /\ atCall.kind = "called"
    /\ atCall.result.duration = 0
    /\ \/ /\ atCall.row.status = "suspended"
          /\ atCall.result.final > atCall.result.start
       \/ /\ atCall.row.status = "active"
          /\ atCall.latest_time # NULL
          /\ atCall.row.start_date > atCall.latest_time

\* A closed row (start_date <= end_date) lying fully inside the window, or read
\* with no window.
InsideWindow ==
    /\ atCall.row.end_date # NULL
    /\ atCall.row.start_date <= atCall.row.end_date
    /\ atCall.earliest_time = NULL \/ atCall.earliest_time <= atCall.row.start_date
    /\ atCall.latest_time = NULL \/ atCall.row.end_date <= atCall.latest_time

\* C11: for a closed row of status 'active' or 'running' lying fully inside the
\* window (earliest_time <= start_date and end_date <= latest_time, or no
\* window), get_active_time returns duration end_date - start_date, effective
\* start start_date and effective end end_date.
C11_FullRowInsideWindow ==
    (atCall.kind = "called" /\ is_active(atCall.row) /\ InsideWindow) =>
        /\ atCall.result.duration = atCall.row.end_date - atCall.row.start_date
        /\ atCall.result.start = atCall.row.start_date
        /\ atCall.result.final = atCall.row.end_date

\* An active row strictly inside a two-sided window, counted whole; and one
\* read with no window at all.
C11_Witness ==
    /\ atCall.kind = "called" /\ atCall.row.status = "active" /\ InsideWindow
    /\ atCall.result.duration > 0
    /\ atCall.result.duration = atCall.row.end_date - atCall.row.start_date
    /\ \/ /\ atCall.earliest_time # NULL /\ atCall.earliest_time < atCall.row.start_date
          /\ atCall.latest_time # NULL /\ atCall.row.end_date < atCall.latest_time
       \/ atCall.earliest_time = NULL /\ atCall.latest_time = NULL

(***************************************************************************)
(* Properties of monitor_machines_for (checked under SpecMachines)         *)
(***************************************************************************)
\* Every grant of database d0 is a grant of d1.
GrantsKept(d0, d1) ==
    /\ \A m \in Machines : d0.pmMem[m] \subseteq d1.pmMem[m]
    /\ \A v \in Versions : d0.verMem[v] \subseteq d1.verMem[v]
    /\ \A a \in Apps : d0.appMem[a] \subseteq d1.appMem[a]

\* C12: membership monotonicity. No step of a monitor_machines_for pass
\* (update_image_membership and, when ENFORCING, distribute_image_membership)
\* removes a membership grant: every (machine, group), (version, group) and
\* (application, group) grant that existed before a step exists after it, so
\* after any sequence of passes every earlier grant still exists.
C12_MembershipMonotone ==
    [][GrantsKept(db, db')]_vars

\* Passes have finished, and have added a grant to a machine which had grants
\* before the first pass (mm.before), all of which it kept.
C12_Witness ==
    /\ mm.kind = "done"
    /\ \E m \in Machines :
          /\ mm.before.pmMem[m] # {}
          /\ mm.before.pmMem[m] \subseteq db.pmMem[m]
          /\ db.pmMem[m] # mm.before.pmMem[m]

(***************************************************************************)
(* Properties of _clean_memberships (checked under SpecPrune)              *)
(***************************************************************************)
\* The machines the pass handed to _clean_memberships.
CleanedMachines == {args.db_machines[i] : i \in 1..Len(args.db_machines)}

\* The three shared-access sets of machine m in database d.
MachineSet(d, m) == d.pmMem[m]
VersionSet(d, m) == d.verMem[topo.verOf[m]]
ApplicationSet(d, m) == d.appMem[AppOfMachine(m)]

SetsUnchanged(m) ==
    /\ MachineSet(db, m) = MachineSet(pre, m)
    /\ VersionSet(db, m) = VersionSet(pre, m)
    /\ ApplicationSet(db, m) = ApplicationSet(pre, m)

\* C13: the integrity check treats a machine as corrupted only if one of its
\* three shared-access sets (machine, version, application) holds more than 128
\* entries; a machine whose three sets each hold at most 128 entries, exactly
\* 128 included, has no membership removed.
C13_AtMostThresholdUntouched ==
    pc = "done" =>
        \A m \in CleanedMachines :
            (/\ Cardinality(MachineSet(pre, m)) <= Threshold
             /\ Cardinality(VersionSet(pre, m)) <= Threshold
             /\ Cardinality(ApplicationSet(pre, m)) <= Threshold) => SetsUnchanged(m)

SetAtLevel(d, d0, m) ==
    IF Cardinality(MachineSet(d0, m)) >= Threshold THEN MachineSet(d, m)
    ELSE IF Cardinality(VersionSet(d0, m)) >= Threshold THEN VersionSet(d, m)
    ELSE ApplicationSet(d, m)

VersionOffProvider(v, P) == \A m \in MachinesOf(v) : topo.provOf[m] # P
AppOffProvider(a, P) == \A v \in VersionsOf(a) : VersionOffProvider(v, P)

\* C16: provider independence. A pass for provider P leaves unchanged every
\* machine, version and application that has no machine on P.
C16_OtherProvidersUntouched ==
    pc = "done" =>
        /\ \A m \in Machines : topo.provOf[m] # args.provider =>
              db.mEnd[m] = pre.mEnd[m] /\ db.pmMem[m] = pre.pmMem[m]
        /\ \A v \in Versions : VersionOffProvider(v, args.provider) =>
              db.vEnd[v] = pre.vEnd[v] /\ db.verMem[v] = pre.verMem[v]
        /\ \A a \in Apps : AppOffProvider(a, args.provider) =>
              db.aEnd[a] = pre.aEnd[a] /\ db.appMem[a] = pre.appMem[a]

PassOrder ==
    { <<"orphans", "versions">>, <<"versions", "apps">>, <<"apps", "repair">>,
      <<"repair", "clean">>, <<"clean", "done">> }
PassEntry == {"orphans", "returned", "crashed"}

\* C17: within one pass the steps run in the fixed order end-date orphaned
\* machines, sweep versions, sweep applications, repair applications, clean
\* memberships. Every step is followed by the next one of the list; a pass is
\* entered only from rest; machine end dates change in the first step only and
\* memberships in the last step only, so cleanup never starts before the
\* orphan end-dating of the same pass has finished.
C17_FixedStepOrder ==
    [][/\ pc' # pc =>
            \/ <<pc, pc'>> \in PassOrder
            \/ pc \in {"idle", "done", "returned", "crashed"} /\ pc' \in PassEntry
       /\ db'.mEnd # db.mEnd => (pc = "orphans" /\ pc' = "versions")
       /\ (db'.pmMem # db.pmMem \/ db'.verMem # db.verMem \/ db'.appMem # db.appMem)
              => (pc = "clean" /\ pc' = "done")]_vars

\* A finished pass whose first step end-dated a machine and whose last step
\* removed memberships.
C17_Witness ==
    /\ pc = "done"
    /\ db.mEnd # pre.mEnd
    /\ db.pmMem # pre.pmMem

(***************************************************************************)
(* Order of monitor_allocation_sources (checked under SpecAlloc)           *)
(***************************************************************************)
\* <<source, user>> pairs compared by source name, then username.
PairBefore(p, q) == p[1] < q[1] \/ (p[1] = q[1] /\ p[2] < q[2])
StrictlySorted(pairs) ==
    \A i, j \in 1..Len(pairs) : i < j => PairBefore(pairs[i], pairs[j])

VisitedPairs == [i \in 1..Len(visitLog) |-> <<visitLog[i].source, visitLog[i].user>>]

\* C18: monitor_allocation_sources walks the allocation sources in ascending
\* name order and, within a source, the users in ascending username order; the
\* sequence of dispatched (allocation_source, user) tasks is sorted by (source
\* name, username) and holds each pair at most once per run.
C18_DeterministicOrder ==
    /\ StrictlySorted(VisitedPairs)
    /\ StrictlySorted(dispatched)
    /\ allocPc = "done" =>
          \A s \in SourceNames : \A u \in all_users(s) :
              \E i \in 1..Len(visitLog) : VisitedPairs[i] = <<s, u>>

\* A finished run that dispatched tasks for both sources and for two users of
\* one source.
C18_Witness ==
    /\ allocPc = "done"
    /\ Len(dispatched) >= 3
    /\ \E i, j \in 1..Len(dispatched) :
          dispatched[i][1] # dispatched[j][1]
    /\ \E i, j \in 1..Len(dispatched) :
          dispatched[i][1] = dispatched[j][1] /\ dispatched[i][2] # dispatched[j][2]

(***************************************************************************)
(* Properties of allocation_source_overage_enforcement_for_user            *)
(* (checked under SpecEnforce)                                             *)
(***************************************************************************)
\* The affected instances of the logged identities that did not raise, in order.
RECURSIVE Concatenated(_)
Concatenated(log) ==
    IF log = << >> THEN << >>
    ELSE (IF Head(log).raised THEN << >> ELSE Head(log).affected) \o Concatenated(Tail(log))

\* C19: failures are isolated per identity. An exception raised while enforcing
\* on one identity does not leave the function; enforcement is attempted on
\* every current identity of the user, in order; the list returned is the
\* concatenation of the affected instances of the identities that succeeded.
C19_FailuresIsolated ==
    /\ enf.kind \in {"none", "loop", "returned"}
    /\ enf.kind = "returned" =>
          /\ Len(enf.log) = Len(enf.identities)
          /\ \A i \in 1..Len(enf.log) : enf.log[i].identity = enf.identities[i]
          /\ enf.user_instances = Concatenated(enf.log)

\* The call returned after one identity raised and identities before and after
\* it contributed instances.
C19_Witness ==
    /\ enf.kind = "returned"
    /\ \E i, j, k \in 1..Len(enf.log) :
          /\ i < j /\ j < k
          /\ ~enf.log[i].raised /\ enf.log[i].affected # << >>
          /\ enf.log[j].raised
          /\ ~enf.log[k].raised /\ enf.log[k].affected # << >>
    /\ enf.user_instances # << >>

(***************************************************************************)
(* Properties of previous() (checked under SpecNav)                        *)
(***************************************************************************)
\* The rows of the same instance that end when row id starts.
Preceding(id) ==
    {i \in RowsOf(rows, rows[id].instance) : rows[i].end_date = rows[id].start_date}

\* C20: previous() on a row that is not the first row of its instance returns
\* the chronologically preceding row, the row of the same instance whose
\* end_date equals this row's start_date; on the first row (start_date equal
\* to the instance's start_date) it raises LookupError.
C20_PreviousReturnsPreceding ==
    nav.kind = "called" =>
        IF rows[nav.id].start_date = nav.inst_start
        THEN nav.result.kind = "LookupError"
        ELSE /\ nav.result.kind = "returned"
             /\ nav.result.value \in Preceding(nav.id)

(***************************************************************************)
(* Properties of next() (checked under SpecNav)                            *)
(***************************************************************************)
\* the instance that owns the row the walk stands on
Owner == rows[nav.id].instance

\* C21: next() on an open row (end_date null) raises LookupError when the
\* owning instance is still active (its end_date is null) and ValueError when
\* the instance has an end_date but the row is still open.
C21_OpenRowSignals ==
    (nav.kind = "walked" /\ rows[nav.id].end_date = NULL) =>
        /\ instEnd[Owner] = NULL => nav.result.kind = "LookupError"
        /\ instEnd[Owner] # NULL => nav.result.kind = "ValueError"

\* an ended instance whose open row was asked for its successor
C21_Witness ==
    /\ nav.kind = "walked"
    /\ rows[nav.id].end_date = NULL
    /\ instEnd[Owner] # NULL
    /\ nav.result.kind = "ValueError"

\* the rows of a chain are stored in start_date order: its final row
FinalRow(inst) == CHOOSE i \in RowsOf(rows, inst) : \A j \in RowsOf(rows, inst) : j <= i

\* the rows from..to, one after the other
RowsInOrder(from, to) == [k \in 1..(to - from + 1) |-> from + k - 1]

\* the instance has ended but its last row is still open (the case of C21)
LeakedRow(inst) == rows[FinalRow(inst)].end_date = NULL /\ instEnd[inst] # NULL

\* C22: on a contiguous chain, next() on a closed row that is not the final
\* row returns the row that starts when this row ends, so calling next()
\* repeatedly visits every following row exactly once in start_date order,
\* and the walk ends with LookupError at the last row.
C22_NextTraversesChain ==
    (nav.kind = "walked" /\ ~LeakedRow(Owner)) =>
        /\ nav.id = FinalRow(Owner)
        /\ nav.result.kind = "LookupError"
        /\ nav.visited = RowsInOrder(nav.from, nav.id)

(***************************************************************************)
(* ENFORCING and monitor_allocation_sources (checked under SpecAlloc)      *)
(***************************************************************************)
\* C24: when settings.ENFORCING is false, monitor_allocation_sources
\* dispatches no allocation_source_overage_enforcement_for_user task,
\* whatever the over-allocation and override values are.
C24_NoDispatchWhenNotEnforcing ==
    ~ENFORCING => dispatched = << >>

(***************************************************************************)
(* Lock conflicts in transaction() (checked under SpecHist)                *)
(***************************************************************************)
\* C25: when a DatabaseError occurs inside transaction(), the error is caught,
\* nothing is written (the table is as it was before the call: the old row is
\* as it was and there is no new row), the call is not retried and returns no
\* history row.
C25_ConflictAbandons ==
    lastCall.kind = "DatabaseError" =>
        /\ rows = lastCall.before
        /\ lastCall.returned = NULL

\* a conflict while closing an open row: the row is still open afterwards
C25_Witness ==
    /\ lastCall.kind = "DatabaseError"
    /\ lastCall.start_time # NULL
    /\ rows[lastCall.closed].end_date = NULL
    /\ Len(rows) = Len(lastCall.before)

(***************************************************************************)
(* Properties of monitor_sizes_for (checked under SpecSizes)               *)
(***************************************************************************)
\* C26: in the 'Unknown Size' loop, a lookup that fails with HTTP 404 skips
\* the size; a lookup that fails with any other HTTP error makes the pass
\* fail, and no size is converted from a stale or undefined lookup result:
\* every conversion is from the size the lookup of that iteration found.
C26_LookupErrors ==
    \A k \in 1..Len(sz.log) :
        LET e == sz.log[k]
        IN SizeAlias[e.size] # "N/A" =>
            /\ e.outcome = "404" => e.did = "skipped"
            /\ e.outcome = "500" => e.did = "raised" /\ sz.kind = "failed"
            /\ e.did = "converted" => e.outcome = "found" /\ e.from = SizeAlias[e.size]

(***************************************************************************)
(* Properties of the top-level jobs (checked under SpecTop)                *)
(***************************************************************************)
\* the tasks the job has enqueued for provider p
EnqueuedFor(p) ==
    {k \in 1..Len(top.enqueued) :
        top.enqueued[k].provider = p /\ top.enqueued[k].task = TaskFor(top.job)}

\* C27: when a top-level job has returned it has enqueued exactly one
\* per-provider task for every active provider and none for an inactive one,
\* whether or not tasks enqueued earlier have finished or failed meanwhile
\* (it does not wait for them, and a failed task stops no other task).
C27_OneJobPerActiveProvider ==
    top.kind = "returned" =>
        /\ \A p \in Providers :
              Cardinality(EnqueuedFor(p)) = IF top.active[p] THEN 1 ELSE 0
        /\ Len(top.enqueued) = Cardinality(get_active(top.active))

\* the job returned while both tasks were unfinished; the first task then
\* failed and the second ran and succeeded
C27_Witness ==
    /\ top.kind = "returned"
    /\ top.unfinished = 2
    /\ Len(top.finished) = 2
    /\ top.enqueued[top.finished[1]].status = "failed"
    /\ top.enqueued[top.finished[2]].status = "succeeded"

(***************************************************************************)
(* Properties of _share_image (checked under SpecShare)                    *)
(***************************************************************************)
\* C28: an exception raised by the cloud while sharing one image with one
\* tenant never leaves _share_image (the batch goes on); the conflict that
\* says the tenant is already associated with the image passes as satisfied,
\* without a warning, and every other exception is surfaced as a warning.
C28_ShareExceptionsCaught ==
    \A k \in 1..Len(share.log) :
        LET e == share.log[k]
        IN e.raised \in (ShareOutcomes \ {"shared"}) =>
            /\ e.result = "returned"
            /\ e.warned = (e.raised # "conflict_already_associated")

(***************************************************************************)
(* Drift repair (checked under SpecPrune)                                  *)
(***************************************************************************)
\* the application has versions and none of them is current
AllVersionsInactive(d, a, now_time) ==
    VersionsOf(a) # {} /\ inactive_versions(d, a, now_time)

\* C29: the repair step of a prune_machines_for pass end-dates every
\* application whose versions are all inactive and which was not end-dated,
\* and leaves the applications that still have an active version unchanged.
C29_RepairEndDatesDrift ==
    [][pc = "repair" =>
        \A a \in Apps :
            /\ (AllVersionsInactive(db, a, args.now) /\ db.aEnd[a] = NULL)
                  => db'.aEnd[a] # NULL
            /\ (~inactive_versions(db, a, args.now)) => db'.aEnd[a] = db.aEnd[a]]_vars

(***************************************************************************)
(* Properties of monitor_volumes_for (checked under SpecVolumes)           *)
(***************************************************************************)
\* the pass changed the end_date of the volume, or end-dated the row it created
EndDatedByPass(v) ==
    /\ vol.db[v].exists
    /\ vol.db[v].end # (IF vol.before[v].exists THEN vol.before[v].end ELSE NULL)

\* a volume that was current in the database when the pass started
WasCurrentVolume(v) ==
    /\ vol.before[v].exists
    /\ VolProvider[v] = vol.provider
    /\ only_current(vol.before[v].end, vol.now)

\* C30: in a monitor_volumes_for pass a current volume of the provider is
\* end-dated if and only if the cloud snapshot does not report it, and a
\* volume the snapshot reports, one registered during the pass through the
\* identity-lookup fallback included, is not end-dated by the pass.
C30_VolumeOrphansEndDated ==
    vol.kind = "returned" =>
        /\ \A v \in VolIds :
              WasCurrentVolume(v) => (EndDatedByPass(v) <=> v \notin vol.all_volumes)
        /\ \A v \in vol.all_volumes : ~EndDatedByPass(v)

(***************************************************************************)
(* End dates under reconciliation (checked under SpecReconcile)            *)
(***************************************************************************)
\* a column of end dates keeps every date that was set
DatesKept(old, new) ==
    /\ DOMAIN new = DOMAIN old
    /\ \A x \in DOMAIN old : old[x] # NULL => new[x] # NULL

\* a table of rows keeps every row, and every end_date that was set
RowsKept(old, new) ==
    /\ DOMAIN new = DOMAIN old
    /\ \A x \in DOMAIN old :
          old[x].exists => (new[x].exists /\ (old[x].end # NULL => new[x].end # NULL))

\* C23: no step of a prune_machines_for, monitor_machines_for,
\* monitor_volumes_for or monitor_sizes_for pass sets an end_date that was set
\* (of a machine, a volume, a version, an application, a size) back to null,
\* and none deletes such a record.
C23_EndDateNeverCleared ==
    [][/\ DatesKept(db.mEnd, db'.mEnd)
       /\ DatesKept(db.vEnd, db'.vEnd)
       /\ DatesKept(db.aEnd, db'.aEnd)
       /\ RowsKept(vol.db, vol'.db)
       /\ RowsKept(sz.db, sz'.db)]_vars

\* the four passes have run; the cloud reported the end-dated volume vol1 and
\* listed the end-dated size s1, a prune pass found the image of the end-dated
\* machine m1 in its snapshot, and all three are still end-dated
C23_Witness ==
    /\ pc = "done" /\ mm.kind = "done"
    /\ vol.kind = "returned" /\ sz.kind = "returned"
    /\ "vol1" \in vol.all_volumes /\ vol.db["vol1"].end # NULL
    /\ "1" \in sz.seen /\ sz.db["s1"].end # NULL
    /\ "img1" \in args.cloud_machines /\ db.mEnd["m1"] # NULL

(***************************************************************************)
(* Sign of the active time (checked under SpecActive)                      *)
(***************************************************************************)
\* a row that ends no earlier than it starts, read with a window that ends no
\* earlier than it begins and begins no later than the present
WellFormedCall ==
    /\ atCall.row.end_date # NULL => atCall.row.start_date <= atCall.row.end_date
    /\ atCall.earliest_time # NULL => atCall.earliest_time <= atCall.now
    /\ (atCall.earliest_time # NULL /\ atCall.latest_time # NULL)
          => atCall.earliest_time <= atCall.latest_time

\* C39: for every such row and window, windows that begin after the row has
\* ended included, get_active_time returns a duration that is not negative
\* and an effective start that is not after the effective end.
C39_NonNegativeDuration ==
    (atCall.kind = "called" /\ WellFormedCall) =>
        /\ atCall.result.duration >= 0
        /\ atCall.result.start <= atCall.result.final

\* C38: when the validated cloud snapshot is empty and forced_removal is false,
\* the pass ends before its first loop, by the return of line 141 when the
\* provider is active, and the database is as the pass found it: no end date
\* set, no membership removed.
C38_EmptySnapshotGuard ==
    (pc # "idle" /\ args.cloud_machines = {} /\ ~args.forced_removal) =>
        /\ db = pre
        /\ Finished /\ pc # "done"
        /\ topo.active[args.provider] => pc = "returned"

\* The cloud listed images, the validator rejected them all, and the pass
\* returned leaving a current machine of the provider that no image matches.
C38_Witness ==
    /\ pc = "returned"
    /\ args.cloud # {} /\ args.validate /\ args.cloud_machines = {}
    /\ \E m \in Machines : topo.provOf[m] = args.provider /\ db.mEnd[m] = NULL

\* C37: a pass called with dry_run=True leaves every end date and every
\* membership row as it found them, in each of its five steps.
C37_DryRunPersistsNothing ==
    (pc # "idle" /\ args.dry_run) => db = pre

\* C40: for an inactive provider a pass with forced_removal=True runs to its
\* end on an empty cloud snapshot and end-dates every in-range machine of the
\* provider.
C40_InactiveForcedRemoval ==
    (Finished /\ ~topo.active[args.provider] /\ args.forced_removal) =>
        /\ pc = "done"
        /\ args.cloud_machines = {}
        /\ \A m \in Machines :
              (topo.provOf[m] = args.provider /\ only_current(pre.mEnd[m], args.now))
                  => ~only_current(db.mEnd[m], args.now)

(***************************************************************************)
(* Properties of update_image_membership (checked under SpecMembership)    *)
(***************************************************************************)
\* The four sets of names of the call on record, read from the image and from
\* the tables as they were before it.
UnionOfNames ==
    LET r == has_machine_request(uim.before, uim.cm.id)
    IN (IF uim.cm.application_owner # NULL THEN {uim.cm.application_owner} ELSE {})
           \cup uim.cm.members
           \cup (IF r = "none" THEN {} ELSE uim.before.request[r].access_list)
           \cup uim.cm.pattern

\* C32: for an image that is not public and whose union of owner, cloud
\* members, access list of the last completed request and pattern-matched
\* names holds at most 128 names, the call leaves a grant on the machine for
\* every Group named in the union and adds a grant for no other group.
C32_GrantsFollowUnion ==
    (uim.kind = "called" /\ uim.cm.visibility # "public"
        /\ Cardinality(UnionOfNames) <= Threshold) =>
        /\ \A g \in Groups : g \in UnionOfNames => g \in db.pmMem[uim.m]
        /\ (db.pmMem[uim.m] \ uim.before.pmMem[uim.m]) \subseteq (UnionOfNames \cap Groups)
        /\ \A m \in Machines \ {uim.m} : db.pmMem[m] = uim.before.pmMem[m]

\* A private image whose union holds exactly 128 names, one of them a name no
\* Group carries, another the name of a group with no grant before the call.
C32_Witness ==
    /\ uim.kind = "called" /\ uim.cm.visibility = "private"
    /\ Cardinality(UnionOfNames) = Threshold
    /\ 0 \in UnionOfNames
    /\ \E g \in Groups :
          /\ g \in UnionOfNames
          /\ g \notin uim.before.pmMem[uim.m]
          /\ g \in db.pmMem[uim.m]

(***************************************************************************)
(* Properties of the validator (checked under SpecValidate)                *)
(***************************************************************************)
\* The current machines of the pruned provider whose image the cloud lists
\* and the validator rejects.
RejectedMachines ==
    {m \in Machines : /\ topo.provOf[m] = args.provider
                      /\ only_current(db.mEnd[m], args.now)
                      /\ topo.identOf[m] \in args.cloud
                      /\ ~machine_is_valid(topo.identOf[m])}

HasCurrentAllocation ==
    \E k \in UasKeys : k[1] = auth.user /\ auth.uas[k] = "current"

\* C31: when the remote lookup returns, validate_user returns true exactly
\* when the list holds a project allocation; when the remote reports no TACC
\* user or no account it returns false; when the remote call times out or
\* raises a TAS API error it raises nothing and returns true exactly when the
\* user has a current UserAllocationSource.
C31_ValidateUser ==
    (auth.kind = "called") =>
        /\ auth.answer = "returned" =>
              (~auth.result.raised /\ (auth.result.value <=> auth.project_allocations >= 1))
        /\ auth.answer \in {"NoTaccUserForXsedeException", "NoAccountForUsernameException"} =>
              (~auth.result.raised /\ ~auth.result.value)
        /\ auth.answer \in {"TASAPIException", "Timeout"} =>
              (~auth.result.raised /\ (auth.result.value <=> HasCurrentAllocation))

\* The remote call timed out for a user with one current and one expired
\* allocation row, and the user was found valid.
C31_Witness ==
    /\ auth.kind = "called" /\ auth.answer = "Timeout"
    /\ auth.result.value /\ ~auth.result.raised
    /\ \E k \in UasKeys : k[1] = auth.user /\ auth.uas[k] = "expired"
    /\ \E k \in UasKeys : k[1] # auth.user /\ auth.uas[k] # "current"

(***************************************************************************)
(* Properties of monitor_instances_for (checked under SpecInstances)       *)
(***************************************************************************)
IsPrefix(a, b) == Len(a) <= Len(b) /\ \A k \in 1..Len(a) : a[k] = b[k]

\* C35: a failure while converting the running instances of a tenant does not
\* end the pass: the tenants are visited in sorted order, all of them by the
\* time the pass returns; an instance of a failing tenant that was current
\* stays current; the instances of the other tenants that have an identity
\* are reconciled.
C35_TenantFailureIsLocal ==
    (mon.kind \in {"loop", "returned"} /\ mon.openstack) =>
        /\ IsPrefix(mon.visited, order_by(DOMAIN mon.instance_map))
        /\ mon.kind = "returned" => mon.visited = order_by(DOMAIN mon.instance_map)
        /\ \A i \in MonInstances :
              (i[1] \in mon.failed /\ mon.before[i] = "current") => mon.db[i] = "current"
        /\ \A n \in 1..Len(mon.visited) :
              LET t == mon.visited[n]
              IN (t \in mon.identified \ mon.failed) =>
                    \A i \in MonInstances :
                        (i[1] = t /\ mon.before[i] = "current"
                            /\ i \notin RunningOf(mon.instance_map, t)) => mon.db[i] = "ended"

\* The first tenant failed while a current instance of it was not among those
\* running, the pass went on, and ended an instance of a later tenant.
C35_Witness ==
    /\ mon.kind = "returned" /\ mon.openstack
    /\ 1 \in mon.failed
    /\ mon.before[<<1, 1>>] = "current" /\ mon.db[<<1, 1>>] = "current"
    /\ \E i \in MonInstances :
          i[1] > 1 /\ mon.before[i] = "current" /\ mon.db[i] = "ended"

(***************************************************************************)
(* Properties of concurrent passes (checked under SpecConcurrent)          *)
(***************************************************************************)
BothPassesDone == \A i \in Procs : par[i].pc = "done"

\* C33: when the passes of two providers have run at the same time and each
\* has end-dated the machine it owns of a version they share, leaving the
\* version no current machine, the version is end-dated once both have
\* finished, and so is its application when none of its versions is current.
C33_ConcurrentPassesCascade ==
    BothPassesDone =>
        \A v \in Versions :
            (/\ \E m1 \in MachinesOf(v), m2 \in MachinesOf(v) :
                    topo.provOf[m1] # topo.provOf[m2]
             /\ \A m \in MachinesOf(v) : db.mEnd[m] # NULL) =>
                /\ db.vEnd[v] # NULL
                /\ (\A w \in VersionsOf(topo.appOf[v]) : db.vEnd[w] # NULL)
                        => db.aEnd[topo.appOf[v]] # NULL

(***************************************************************************)
(* Properties of interleaved transaction() calls (under SpecInterleaved)   *)
(***************************************************************************)
OpenRows(inst) == {id \in RowsOf(rows, inst) : rows[id].end_date = NULL}

\* C34: when two transaction() calls for one instance have interleaved and
\* both are over, the instance has at most one open history row and no row
\* has been closed by both calls.
C34_InterleavedCallsAtomic ==
    (\A i \in Procs : par[i].pc \in Finals) =>
        /\ Cardinality(OpenRows("i1")) <= 1
        /\ ~(\A i \in Procs : par[i].pc = "committed" /\ par[i].last = par[1].last)
====
